---- MODULE Spec2Model ----
(***************************************************************************)
(* A model of scene_packager: the nuke script block parser, the dependency *)
(* extraction and scene rewriting of the nuke config, and the path helpers *)
(* of scene_packager.utils.                                                *)
(*                                                                         *)
(* Text is modelled as a sequence of atoms.  An atom is one character of   *)
(* the text ("/", ".", "{", "}", " ", "\n") or a word made of characters   *)
(* that no pattern of the program treats specially ("Read", "file",        *)
(* "exr").  A regular expression built from a path is a sequence of atoms  *)
(* in which "." matches any one atom except the line break, as in Python's *)
(* re module.                                                              *)
(***************************************************************************)
EXTENDS Integers, Sequences, FiniteSets, TLC

VARIABLES
    \* _parse_nodes (generator)
    p_pc, lines, unmatched, node_txt, yielded,
    \* load_scene_data / write_packaged_scene
    kind, pyver, relative_paths, pc, nodes, root, dep_data, dep_order,
    start, end, file, dst, rel, err, scene_txt, scene_out,
    \* get_renamed_dst_path
    rn_pc, rn_src, rn_patterns, rn_out,
    \* get_relative_path
    rp_pc, rp_in, rp_out,
    \* clean_root
    cr_pc, cr_in, cr_out,
    \* Packager.run and the package directory it works on
    r_pc, mode, overwrite, platform, src_scene, fs, fs0, tmp, steps, fs_log,
    r_err, runs,
    \* basic_package_dst_path
    bd_pc, bd_in, bd_out,
    \* Packager.get_filecopy_metadata over set_scene_file and run
    m_pc, m_mode, m_scene, m_deps, m_extra, m_limit, filecopy_metadata,
    m_written, m_copied, m_runs,
    \* package_scenes
    b_pc, b_scenes, b_i, dne, ids, b_err,
    \* remove_existing_package and the detached removal of the renamed package
    d_pc, dirs, d_target, d_subproc, jobs, d_clock, d_gen, d_deleted, d_err

parserVars == <<p_pc, lines, unmatched, node_txt, yielded>>
sceneVars  == <<kind, pyver, relative_paths, pc, nodes, root, dep_data,
                dep_order, start, end, file, dst, rel, err, scene_txt, scene_out>>
renameVars == <<rn_pc, rn_src, rn_patterns, rn_out>>
relVars    == <<rp_pc, rp_in, rp_out>>
rootVars   == <<cr_pc, cr_in, cr_out>>
runVars    == <<r_pc, mode, overwrite, platform, src_scene, fs, fs0, tmp, steps,
                fs_log, r_err, runs>>
dstVars    == <<bd_pc, bd_in, bd_out>>
manifestVars == <<m_pc, m_mode, m_scene, m_deps, m_extra, m_limit,
                  filecopy_metadata, m_written, m_copied, m_runs>>
batchVars  == <<b_pc, b_scenes, b_i, dne, ids, b_err>>
deleteVars == <<d_pc, dirs, d_target, d_subproc, jobs, d_clock, d_gen,
                d_deleted, d_err>>
vars == <<parserVars, sceneVars, renameVars, relVars, rootVars, runVars,
          dstVars, manifestVars, batchVars, deleteVars>>

----------------------------------------------------------------------------
(* Bounds *)

MaxLines == 5
MaxNodes == 3
MaxRules == 3
MaxRootLen == 2
MaxSceneLen == 2
MaxDepLen == 4
MaxRootKnobs == 3
MaxRuns == 2

----------------------------------------------------------------------------
(* Text helpers *)

NL == "\n"

SeqsUpTo(S, n) == UNION {[1..k -> S] : k \in 0..n}

RECURSIVE Count(_, _)
Count(s, a) ==
    IF s = <<>> THEN 0
    ELSE (IF Head(s) = a THEN 1 ELSE 0) + Count(Tail(s), a)

Drop(s, n) == IF n >= Len(s) THEN <<>> ELSE SubSeq(s, n + 1, Len(s))

Take(s, n) == IF n >= Len(s) THEN s ELSE SubSeq(s, 1, n)

StartsWith(s, p) == Len(p) <= Len(s) /\ Take(s, Len(p)) = p

Contains(s, a) == \E i \in 1..Len(s) : s[i] = a

RECURSIVE Concat(_)
Concat(ss) == IF ss = <<>> THEN <<>> ELSE Head(ss) \o Concat(Tail(ss))

----------------------------------------------------------------------------
(* _parse_nodes *)

INVALIDS == {"add_layer", "define_window_layout"}

\* The lines the generator is fed, each ending with its line break.
LineMenu ==
    { <<"Read", " ", "{", NL>>,
      <<"Root", " ", "{", NL>>,
      <<" ", "w", NL>>,
      <<"}", NL>>,
      <<" ", "w", " ", "{", NL>>,
      <<" ", "w", " ", "{", "w", "}", NL>>,
      <<"add_layer", " ", "{", "w", "}", NL>>,
      <<"}", " ", "{", NL>> }

l_bracket(line) == Count(line, "{")
r_bracket(line) == Count(line, "}")

\* "if not node_txt and not l_bracket: continue"
SkipLine(txt, line) == txt = <<>> /\ l_bracket(line) = 0

\* "if 0 == unmatched and node_txt"
NodeCompleteMut(u, txt) == u <= 1 /\ txt # <<>>
NodeComplete(u, txt) == u = 0 /\ txt # <<>>

\* "any([re.search(regex, new_node) for regex in INVALIDS])": both patterns are
\* anchored at the start of the block
IsInvalid(new_node) == new_node # <<>> /\ Head(new_node) \in INVALIDS

ParserInit ==
    /\ p_pc = "run"
    /\ lines = <<>>
    /\ unmatched = 0
    /\ node_txt = <<>>
    /\ yielded = <<>>

\* One iteration of "for line in lines"
ParseLine ==
    /\ p_pc = "run"
    /\ Len(lines) < MaxLines
    /\ \E line \in LineMenu :
        /\ lines' = Append(lines, line)
        /\ IF SkipLine(node_txt, line)
           THEN UNCHANGED <<p_pc, unmatched, node_txt, yielded>>
           ELSE LET u == unmatched + l_bracket(line) - r_bracket(line)
                    txt == node_txt \o line
                IN  IF u < 0
                    THEN /\ p_pc' = "error"
                         /\ unmatched' = u
                         /\ UNCHANGED <<node_txt, yielded>>
                    ELSE /\ p_pc' = p_pc
                         /\ unmatched' = u
                         /\ IF NodeComplete(u, txt)
                            THEN /\ node_txt' = <<>>
                                 /\ yielded' = IF IsInvalid(txt) THEN yielded
                                               ELSE Append(yielded, txt)
                            ELSE /\ node_txt' = txt
                                 /\ UNCHANGED yielded
    /\ UNCHANGED <<sceneVars, renameVars, relVars, rootVars, runVars,
                dstVars, manifestVars, batchVars, deleteVars>>

\* The input is exhausted: the generator returns
ParseEnd ==
    /\ p_pc = "run"
    /\ p_pc' = "done"
    /\ UNCHANGED <<lines, unmatched, node_txt, yielded>>
    /\ UNCHANGED <<sceneVars, renameVars, relVars, rootVars, runVars,
                dstVars, manifestVars, batchVars, deleteVars>>

ParserIdle ==
    /\ p_pc = "idle"
    /\ lines = <<>>
    /\ unmatched = 0
    /\ node_txt = <<>>
    /\ yielded = <<>>

----------------------------------------------------------------------------
(* Regular expressions over atoms (re.search / re.sub) *)

\* One pattern atom against one text atom: "." matches anything but a line break
AtomMatch(p, c) == p = c \/ (p = "." /\ c # NL)

ReMatchAt(pat, s, i) ==
    /\ i + Len(pat) - 1 <= Len(s)
    /\ \A k \in 1..Len(pat) : AtomMatch(pat[k], s[i + k - 1])

\* re.sub(pat, repl, s): every leftmost non-overlapping match is replaced
RECURSIVE ReSubFrom(_, _, _, _)
ReSubFrom(pat, repl, s, i) ==
    IF i > Len(s) THEN (IF pat = <<>> THEN repl ELSE <<>>)
    ELSE IF ReMatchAt(pat, s, i)
         THEN IF pat = <<>>
              THEN repl \o <<s[i]>> \o ReSubFrom(pat, repl, s, i + 1)
              ELSE repl \o ReSubFrom(pat, repl, s, i + Len(pat))
         ELSE <<s[i]>> \o ReSubFrom(pat, repl, s, i + 1)

ReSub(pat, repl, s) == ReSubFrom(pat, repl, s, 1)

\* re.sub(re.escape(lit), repl, s): the pattern matches itself only
LitMatchAt(lit, s, i) ==
    /\ i + Len(lit) - 1 <= Len(s)
    /\ \A k \in 1..Len(lit) : lit[k] = s[i + k - 1]

RECURSIVE LitSubFrom(_, _, _, _)
LitSubFrom(lit, repl, s, i) ==
    IF i > Len(s) THEN (IF lit = <<>> THEN repl ELSE <<>>)
    ELSE IF LitMatchAt(lit, s, i)
         THEN IF lit = <<>>
              THEN repl \o <<s[i]>> \o LitSubFrom(lit, repl, s, i + 1)
              ELSE repl \o LitSubFrom(lit, repl, s, i + Len(lit))
         ELSE <<s[i]>> \o LitSubFrom(lit, repl, s, i + 1)

LitSub(lit, repl, s) == LitSubFrom(lit, repl, s, 1)

----------------------------------------------------------------------------
(* Path helpers of scene_packager.utils *)

\* clean_path: path.replace("\\", "/")
clean_path(path) == [i \in 1..Len(path) |-> IF path[i] = "\\" THEN "/" ELSE path[i]]

\* str.strip("/")
RECURSIVE LStrip(_, _)
LStrip(s, a) == IF s # <<>> /\ Head(s) = a THEN LStrip(Tail(s), a) ELSE s

RECURSIVE RStrip(_, _)
RStrip(s, a) ==
    IF s # <<>> /\ s[Len(s)] = a THEN RStrip(SubSeq(s, 1, Len(s) - 1), a) ELSE s

Strip(s, a) == RStrip(LStrip(s, a), a)

\* len([x for x in s.split("/") if x]): the runs of atoms between separators
NumSegments(s) ==
    Cardinality({i \in 1..Len(s) : s[i] # "/" /\ (i = 1 \/ s[i - 1] = "/")})

\* os.path.join(a, b)
PathJoin(a, b) ==
    IF b # <<>> /\ Head(b) = "/" THEN b
    ELSE IF a = <<>> \/ a[Len(a)] = "/" THEN a \o b
    ELSE a \o <<"/">> \o b

\* "/".join([".." for x in range(n)])
RECURSIVE DirsUp(_)
DirsUp(n) ==
    IF n <= 0 THEN <<>>
    ELSE IF n = 1 THEN <<"..">>
    ELSE <<"..", "/">> \o DirsUp(n - 1)

NoPath == <<>>

\* "dep_stub = re.sub(package_root, "", package_dependency)"
RootStub(package_root, path) == ReSub(package_root, <<>>, path)

\* The two assertions on the package root
UnderRootMut(path, package_root) == TRUE
UnderRoot(path, package_root) == StartsWith(path, package_root)

get_relative_path(package_scene, package_dependency, package_root) ==
    LET scn == clean_path(package_scene)
        dep == clean_path(package_dependency)
        rt  == clean_path(package_root)
    IN  IF ~UnderRoot(dep, rt) \/ ~UnderRoot(scn, rt)
        THEN [err |-> "AssertionError", path |-> NoPath]
        ELSE LET dep_stub   == Strip(RootStub(rt, dep), "/")
                 scene_stub == RootStub(rt, scn)
                 n          == NumSegments(scene_stub)
             IN  IF dep_stub = <<>>
                 THEN [err |-> "ValueError", path |-> NoPath]
                 ELSE IF n = 1
                 THEN [err |-> "", path |-> clean_path(PathJoin(<<".">>, dep_stub))]
                 ELSE [err |-> "",
                       path |-> clean_path(PathJoin(DirsUp(n - 1), dep_stub))]

RootAtoms  == {"/", "r"}
SceneAtoms == {"/", "a"}
DepAtoms   == {"/", "a", "r"}

RelInit ==
    /\ rp_pc = "call"
    /\ rp_in = [scene |-> <<>>, dep |-> <<>>, root |-> <<"/">>]
    /\ rp_out = [err |-> "", path |-> NoPath]

RelIdle ==
    /\ rp_pc = "idle"
    /\ rp_in = [scene |-> <<>>, dep |-> <<>>, root |-> <<"/">>]
    /\ rp_out = [err |-> "", path |-> NoPath]

\* A call of get_relative_path on paths that are or are not under the root
CallRelativePath ==
    /\ rp_pc = "call"
    /\ \E rt \in SeqsUpTo(RootAtoms, MaxRootLen) \ {<<>>},
          ss \in SeqsUpTo(SceneAtoms, MaxSceneLen),
          ds \in SeqsUpTo(DepAtoms, MaxDepLen),
          su \in BOOLEAN, du \in BOOLEAN :
        LET scn == (IF su THEN rt ELSE <<>>) \o ss
            dep == (IF du THEN rt ELSE <<>>) \o ds
        IN  /\ rp_in' = [scene |-> scn, dep |-> dep, root |-> rt]
            /\ rp_out' = get_relative_path(scn, dep, rt)
    /\ rp_pc' = "done"
    /\ UNCHANGED <<parserVars, sceneVars, renameVars, rootVars, runVars,
                dstVars, manifestVars, batchVars, deleteVars>>

----------------------------------------------------------------------------
(* get_renamed_dst_path *)

\* A rename pattern's regex is a sequence of items: a literal atom, or a named
\* group that captures one atom of a class.  Its format_str is a sequence of
\* literal atoms and "{group}" fields.
Lit(a)      == [t |-> "lit", a |-> a, cls |-> {}]
Grp(g, cls) == [t |-> "grp", a |-> g, cls |-> cls]
Fld(g)      == [t |-> "fld", a |-> g, cls |-> {}]

ItemMatch(item, c) == IF item.t = "lit" THEN item.a = c ELSE c \in item.cls

RegexMatchAt(regex, s, i) ==
    /\ i + Len(regex) - 1 <= Len(s)
    /\ \A k \in 1..Len(regex) : ItemMatch(regex[k], s[i + k - 1])

\* re.search(regex, s): the position of the leftmost match, 0 when there is none
Search(regex, s) ==
    LET hits == {i \in 1..Len(s) : RegexMatchAt(regex, s, i)}
    IN  IF hits = {} THEN 0 ELSE CHOOSE i \in hits : \A j \in hits : i <= j

GroupNames(regex) == {regex[k].a : k \in {j \in 1..Len(regex) : regex[j].t = "grp"}}

\* match.groupdict()
GroupDict(regex, s, i) ==
    [g \in GroupNames(regex) |->
        s[i + (CHOOSE k \in 1..Len(regex) : regex[k].t = "grp" /\ regex[k].a = g) - 1]]

\* "for k, v in subs[grp_name].items(): subbed_str = re.sub(k, v, subbed_str)"
RECURSIVE SubChars(_, _)
SubChars(subs, str) ==
    IF subs = <<>> THEN str
    ELSE SubChars(Tail(subs), IF str = Head(subs)[1] THEN Head(subs)[2] ELSE str)

\* "try: int(s) except ValueError: s", as the value is later formatted
IntCoerce(str) ==
    CASE str = "003"  -> "3"
      [] str = "010"  -> "10"
      [] OTHER        -> str

MatchDict(data, gd) ==
    [g \in DOMAIN gd |->
        IF g \in DOMAIN data.sub_chars /\ data.sub_chars[g] # <<>>
        THEN IntCoerce(SubChars(data.sub_chars[g], gd[g]))
        ELSE IntCoerce(gd[g])]

\* data["format_str"].format(**match_dict)
RECURSIVE Format(_, _)
Format(fmt, md) ==
    IF fmt = <<>> THEN <<>>
    ELSE <<IF Head(fmt).t = "fld" THEN md[Head(fmt).a] ELSE Head(fmt).a>>
         \o Format(Tail(fmt), md)

\* The candidate one matching pattern gives
Renamed(data, src_path) ==
    Format(data.format_str,
           MatchDict(data, GroupDict(data.regex, src_path, Search(data.regex, src_path))))

\* "for data in patterns": <<renamed, matched>> after the loop
RECURSIVE RenameLoop(_, _, _, _)
RenameLoop(patterns, src_path, renamed, matched) ==
    IF patterns = <<>> THEN <<renamed, matched>>
    ELSE LET data  == Head(patterns)
             match == Search(data.regex, src_path) # 0
         IN  RenameLoop(Tail(patterns), src_path,
                        IF match /\ renamed = <<>> THEN Renamed(data, src_path)
                        ELSE renamed,
                        IF match THEN Append(matched, data) ELSE matched)

\* "if matched and len(matched) > 1"
MultipleMatchesMut(matched) == Len(matched) > 2
MultipleMatches(matched) == matched # <<>> /\ Len(matched) > 1

get_renamed_dst_path(src_path, patterns) ==
    LET res == RenameLoop(patterns, src_path, <<>>, <<>>)
    IN  IF MultipleMatches(res[2])
        THEN [err |-> "ValueError", renamed |-> NoPath, matched |-> res[2]]
        ELSE [err |-> "", renamed |-> res[1], matched |-> res[2]]

Digits == {"003", "010"}
Words  == {"bg", "fg"}

\* rename_patterns of a config
RuleMenu ==
    { [desc |-> "version dir",
       regex |-> <<Lit("/"), Lit("v"), Grp("ver", Digits), Lit("/")>>,
       sub_chars |-> [g \in {} |-> <<>>],
       format_str |-> <<Lit("v"), Fld("ver")>>],
      [desc |-> "versioned plate",
       regex |-> <<Lit("v"), Grp("ver", Digits), Lit("/"), Grp("name", Words)>>,
       sub_chars |-> [g \in {"name"} |-> << <<"bg", "plate">> >>],
       format_str |-> <<Fld("name"), Lit("/"), Lit("v"), Fld("ver")>>],
      [desc |-> "exr",
       regex |-> <<Grp("name", Words), Lit("."), Lit("exr")>>,
       sub_chars |-> [g \in {"name"} |-> <<>>],
       format_str |-> <<Fld("name"), Lit("."), Lit("exr")>>],
      [desc |-> "exr again",
       regex |-> <<Lit("."), Lit("exr")>>,
       sub_chars |-> [g \in {} |-> <<>>],
       format_str |-> <<Lit("bg"), Lit("."), Lit("exr")>>] }

SrcMenu ==
    { <<"/", "proj", "/", "v", "003", "/", "bg", ".", "exr">>,
      <<"/", "proj", "/", "fg", ".", "exr">>,
      <<"/", "proj", "/", "v", "010", "/", "fg", ".", "mov">>,
      <<"/", "proj", "/", "bg", ".", "mov">> }

RenameInit ==
    /\ rn_pc = "call"
    /\ rn_src = <<>>
    /\ rn_patterns = <<>>
    /\ rn_out = [err |-> "", renamed |-> NoPath, matched |-> <<>>]

RenameIdle ==
    /\ rn_pc = "idle"
    /\ rn_src = <<>>
    /\ rn_patterns = <<>>
    /\ rn_out = [err |-> "", renamed |-> NoPath, matched |-> <<>>]

\* A call of get_renamed_dst_path with an ordered list of patterns
CallRenamed ==
    /\ rn_pc = "call"
    /\ \E src \in SrcMenu, pats \in SeqsUpTo(RuleMenu, MaxRules) :
        /\ rn_src' = src
        /\ rn_patterns' = pats
        /\ rn_out' = get_renamed_dst_path(src, pats)
    /\ rn_pc' = "done"
    /\ UNCHANGED <<parserVars, sceneVars, relVars, rootVars, runVars,
                dstVars, manifestVars, batchVars, deleteVars>>

----------------------------------------------------------------------------
(* basic_package_dst_path and get_packaged_path *)

FramePads == {"####", "%04d"}

\* os.path.basename
RECURSIVE Basename(_)
Basename(path) ==
    IF Contains(path, "/")
    THEN Basename(Drop(path, CHOOSE i \in 1..Len(path) : path[i] = "/"))
    ELSE path

\* os.path.splitext(name)[0]: the extension starts at the last "." that
\* follows something other than a "."
SplitextBase(name) ==
    LET dots == {i \in 2..Len(name) :
                    name[i] = "." /\ \E j \in 1..(i - 1) : name[j] # "."}
    IN  IF dots = {} THEN name
        ELSE Take(name, (CHOOSE i \in dots : \A j \in dots : j <= i) - 1)

\* re.sub(FRAME_PAD_FMT_REGEX, "", base)
StripFramePad(base) ==
    IF Len(base) >= 2 /\ base[Len(base)] \in FramePads
                      /\ base[Len(base) - 1] \in {"_", "."}
    THEN Take(base, Len(base) - 1)
    ELSE base

\* re.search("\/v\d+\/", src_path): where the match starts, 0 when there is none
VersionDirAt(path) ==
    LET hits == {i \in 1..(Len(path) - 3) :
                    /\ path[i] = "/" /\ path[i + 1] = "v"
                    /\ path[i + 2] \in Digits /\ path[i + 3] = "/"}
    IN  IF hits = {} THEN 0 ELSE CHOOSE i \in hits : \A j \in hits : i <= j

basic_package_dst_path(src_path, dst_dir) ==
    LET src == clean_path(src_path)
        dir == clean_path(dst_dir)
        at  == VersionDirAt(src)
        base == SplitextBase(Basename(src))
        subdir == IF base = <<"*">> THEN <<>> ELSE StripFramePad(base)
    IN  IF at # 0
        THEN clean_path(PathJoin(dir, Drop(src, at)))
        ELSE clean_path(PathJoin(PathJoin(dir, subdir), Basename(src)))

get_packaged_path(filepath, parent_dir) == basic_package_dst_path(filepath, parent_dir)

----------------------------------------------------------------------------
(* ParsedNode *)

\* The node's block in the scene file, its knobs in textual order
KnobOrder == <<"file", "first", "last", "project_directory",
               "first_frame", "last_frame", "name">>

RECURSIVE RenderKnobs(_, _)
RenderKnobs(knobs, order) ==
    IF order = <<>> THEN <<>>
    ELSE (IF Head(order) \in DOMAIN knobs
          THEN <<" ", Head(order), " ">> \o knobs[Head(order)] \o <<NL>>
          ELSE <<>>)
         \o RenderKnobs(knobs, Tail(order))

NodeData(cls, knobs) ==
    <<cls, " ", "{", NL>> \o RenderKnobs(knobs, KnobOrder) \o <<"}", NL>>

Node(cls, knobs) == [Class |-> cls, knobs |-> knobs, data |-> NodeData(cls, knobs)]

HasKnob(node, knob_name) == knob_name \in DOMAIN node.knobs

\* knob_value, for a knob the node has
knob_value(node, knob_name) ==
    LET value == node.knobs[knob_name]
    IN  IF value \in {<<"''">>, <<"\"\"">>} THEN <<>> ELSE value

get_node_file_knobs(node_class) ==
    IF node_class \in {"Vectorfield"} THEN <<"vfield_file">> ELSE <<"file">>

\* files(): the values of the file knobs the node has
files(node) ==
    LET knob == get_node_file_knobs(node.Class)[1]
    IN  IF HasKnob(node, knob) THEN <<knob_value(node, knob)>> ELSE <<>>

get_node_subdir(node) ==
    IF node.Class \in {"DeepWrite", "Write"}
    THEN <<"images", "/", "outputs">>
    ELSE <<"images", "/", "inputs">>

exclude_node_files(node) == node.Class \in {"DeepWrite", "Write"}

\* int(value) of a knob value
IsIntStr(value) == value \in {<<"1">>, <<"2">>, <<"3">>, <<"4">>}
ParseInt(value) ==
    CASE value = <<"1">> -> 1
      [] value = <<"2">> -> 2
      [] value = <<"3">> -> 3
      [] value = <<"4">> -> 4

----------------------------------------------------------------------------
(* load_scene_data *)

\* The package paths of the run (scene_packager_config.package_root and
\* packaged_scene_path)
PackageRoot   == <<"/", "pkg">>
PackagedScene == PathJoin(PathJoin(PackageRoot, <<"nk">>), <<"s", ".", "nk">>)

\* The values the locals "start" and "end" take: None, an int, or a knob string
None    == [t |-> "none", i |-> 0, s |-> <<>>]
IntV(n) == [t |-> "int", i |-> n, s |-> <<>>]
StrV(v) == [t |-> "str", i |-> 0, s |-> v]

\* "a < b" and "a > b" of an int a and a non-None b.  Python 3 raises
\* TypeError for an int against a str; Python 2 orders every int before
\* every str.
CompareRaises(b, py) == b.t = "str" /\ py = 3
IntLess(a, b)    == IF b.t = "int" THEN a < b.i ELSE TRUE
IntGreater(a, b) == IF b.t = "int" THEN a > b.i ELSE FALSE

Fail(L, e) == [L EXCEPT !.err = e]

\* "if file in dep_data": the start frame of a file already logged
ExistingStartMut(L, node, f) ==
    IF ~HasKnob(node, "first") THEN L
    ELSE LET v  == knob_value(node, "first")
             L1 == [L EXCEPT !.start = StrV(v)]
         IN  IF ~IsIntStr(v) THEN Fail(L1, "ValueError")
             ELSE [L1 EXCEPT !.dep_data[f].start = <<ParseInt(v)>>]
ExistingStart(L, node, f) ==
    IF ~HasKnob(node, "first") THEN L
    ELSE LET v  == knob_value(node, "first")
             L1 == [L EXCEPT !.start = StrV(v)]
             curr_start == L.dep_data[f].start
         IN  IF ~IsIntStr(v) THEN Fail(L1, "ValueError")
             ELSE IF curr_start = <<>> \/ ParseInt(v) < curr_start[1]
             THEN [L1 EXCEPT !.dep_data[f].start = <<ParseInt(v)>>]
             ELSE L1

\* ... and its end frame
ExistingEnd(L, node, f) ==
    IF ~HasKnob(node, "last") THEN L
    ELSE LET v  == knob_value(node, "last")
             L1 == [L EXCEPT !.end = StrV(v)]
             curr_end == L.dep_data[f].end
         IN  IF ~IsIntStr(v) THEN Fail(L1, "ValueError")
             ELSE IF curr_end = <<>> \/ ParseInt(v) > curr_end[1]
             THEN [L1 EXCEPT !.dep_data[f].end = <<ParseInt(v)>>]
             ELSE L1

Existing(L, node, f) ==
    LET L1 == ExistingStart(L, node, f)
    IN  IF L1.err # "" THEN L1 ELSE ExistingEnd(L1, node, f)

\* "else": a file not logged yet
NewFile(L, node, f, py) ==
    LET hasF == HasKnob(node, "first")
        hasL == HasKnob(node, "last")
        fv   == knob_value(node, "first")
        lv   == knob_value(node, "last")
    IN  IF hasF /\ ~IsIntStr(fv) THEN Fail(L, "ValueError")
        ELSE IF hasF /\ CompareRaises(L.start, py) THEN Fail(L, "TypeError")
        ELSE
        LET L1 == IF hasF /\ (L.start.t = "none" \/ IntLess(ParseInt(fv), L.start))
                  THEN [L EXCEPT !.start = IntV(ParseInt(fv))]
                  ELSE L
        IN  IF hasL /\ ~IsIntStr(lv) THEN Fail(L1, "ValueError")
            ELSE IF hasL /\ CompareRaises(L1.end, py) THEN Fail(L1, "TypeError")
            ELSE
            LET L2 == IF hasL /\ (L1.end.t = "none" \/ IntGreater(ParseInt(lv), L1.end))
                      THEN [L1 EXCEPT !.end = IntV(ParseInt(lv))]
                      ELSE L1
                data == [packaged_path |-> L.dst,
                         relative_path |-> L.rel,
                         start |-> IF hasF THEN <<ParseInt(fv)>> ELSE <<>>,
                         end   |-> IF hasL THEN <<ParseInt(lv)>> ELSE <<>>]
            IN  [L2 EXCEPT !.dep_data = @ @@ (f :> data),
                           !.dep_order = Append(@, f)]

\* The parent directory a node's file is packaged under
NodeParentDir(node) ==
    PathJoin(PathJoin(PackageRoot, get_node_subdir(node)), knob_value(node, "name"))

\* The body of "for node in utils.parse_nodes(source_scene)", on the locals L
ProcessNode(L, node, py, relative) ==
    LET L0 == [L EXCEPT !.root = IF node.Class = "Root" THEN <<node>> ELSE @,
                        !.file = <<>>]
    IN  IF exclude_node_files(node) \/ files(node) = <<>> THEN L0
        ELSE IF ~HasKnob(node, "name") THEN Fail(L0, "KeyError")
        ELSE
        LET f == files(node)[1]
            d == get_packaged_path(f, NodeParentDir(node))
            r == IF relative
                 THEN get_relative_path(PackagedScene, d, PackageRoot)
                 ELSE [err |-> "", path |-> NoPath]
            L1 == [L0 EXCEPT !.file = <<f>>, !.dst = d, !.rel = r.path]
        IN  IF r.err # "" THEN Fail(L1, r.err)
            ELSE IF f \in DOMAIN L1.dep_data THEN Existing(L1, node, f)
            ELSE NewFile(L1, node, f, py)

----------------------------------------------------------------------------
(* get_scene_frange *)

IsRoot(node) == node.Class = "Root"
NotRoot(node) == node.Class # "Root"

\* "for root in roots": the first Root with first_frame and last_frame gives
\* the range; a Root with first_frame alone leaves its value in start
RECURSIVE RootsFrange(_, _)
RootsFrange(roots, acc) ==
    IF roots = <<>> THEN acc
    ELSE LET r == Head(roots)
         IN  IF ~HasKnob(r, "first_frame") THEN RootsFrange(Tail(roots), acc)
             ELSE IF ~IsIntStr(knob_value(r, "first_frame"))
             THEN [acc EXCEPT !.err = "ValueError"]
             ELSE LET a1 == [acc EXCEPT
                                !.start = IntV(ParseInt(knob_value(r, "first_frame")))]
                  IN  IF ~HasKnob(r, "last_frame") THEN RootsFrange(Tail(roots), a1)
                      ELSE IF ~IsIntStr(knob_value(r, "last_frame"))
                      THEN [a1 EXCEPT !.err = "ValueError"]
                      ELSE [a1 EXCEPT
                               !.end = IntV(ParseInt(knob_value(r, "last_frame"))),
                               !.found = TRUE]

\* "for node in [n for n in nodes if n not in roots]": lowest start and
\* highest end; a knob that is missing or not an integer is passed over
RECURSIVE NodesFrange(_, _)
NodesFrange(ns, acc) ==
    IF ns = <<>> THEN acc
    ELSE LET n == Head(ns)
             okF == HasKnob(n, "first") /\ IsIntStr(knob_value(n, "first"))
             okL == HasKnob(n, "last") /\ IsIntStr(knob_value(n, "last"))
             s == IF okF /\ (acc.start.t = "none"
                             \/ ParseInt(knob_value(n, "first")) < acc.start.i)
                  THEN IntV(ParseInt(knob_value(n, "first"))) ELSE acc.start
             e == IF okL /\ (acc.end.t = "none"
                             \/ ParseInt(knob_value(n, "last")) > acc.end.i)
                  THEN IntV(ParseInt(knob_value(n, "last"))) ELSE acc.end
         IN  NodesFrange(Tail(ns), [acc EXCEPT !.start = s, !.end = e])

NoFrangeError == "RuntimeError: could not figure out scene start/end"

get_scene_frange(ns) ==
    LET a0 == [err |-> "", found |-> FALSE, start |-> None, end |-> None]
        a1 == RootsFrange(SelectSeq(ns, IsRoot), a0)
        a2 == NodesFrange(SelectSeq(ns, NotRoot), a1)
    IN  IF a1.err # "" \/ a1.found THEN a1
        ELSE IF a2.start.t # "none" /\ a2.end.t # "none" THEN a2
        ELSE [a2 EXCEPT !.err = NoFrangeError]

\* _init_settings: settings["start"] and settings["end"] of the packager
\* constructed on the scene
SettingsRange(ns) == get_scene_frange(ns)

----------------------------------------------------------------------------
(* clean_root and write_packaged_scene *)

\* project_directory() of the nuke config
ProjectDir ==
    <<" ", "project_directory", " ", "\"[python nuke.script_directory()]\"", NL>>

\* "{0}".format(value) of a start or end value
IntAtom(n) ==
    CASE n = 1 -> "1" [] n = 2 -> "2" [] n = 3 -> "3" [] n = 4 -> "4"

FormatValue(v) ==
    CASE v.t = "none" -> <<"None">>
      [] v.t = "int"  -> <<IntAtom(v.i)>>
      [] v.t = "str"  -> v.s

RootOpen == <<"Root", " ", "{", NL>>

\* re.search("Root \{\n", inserted).end(), 0 when there is no match
RootOpenEnd(txt) ==
    LET hits == {i \in 1..Len(txt) : LitMatchAt(RootOpen, txt, i)}
    IN  IF hits = {} THEN 0
        ELSE (CHOOSE i \in hits : \A j \in hits : i <= j) + Len(RootOpen) - 1

InsertAfterRootOpen(txt, ins) ==
    LET e == RootOpenEnd(txt)
    IN  IF e = 0 THEN txt ELSE Take(txt, e) \o ins \o Drop(txt, e)

\* The first line break at or after position i, 0 when there is none
NextNL(txt, i) ==
    LET nls == {j \in i..Len(txt) : txt[j] = NL}
    IN  IF nls = {} THEN 0 ELSE CHOOSE j \in nls : \A k \in nls : j <= k

\* The first atom at or after position i that is not a space
RECURSIVE SkipSpaces(_, _)
SkipSpaces(txt, i) ==
    IF i <= Len(txt) /\ txt[i] = " " THEN SkipSpaces(txt, i + 1) ELSE i

\* re.sub("(^| +)project_directory.*\n", "", inserted)
RECURSIVE RemoveProjectDirFrom(_, _)
RemoveProjectDirFrom(txt, i) ==
    IF i > Len(txt) THEN <<>>
    ELSE LET j == SkipSpaces(txt, i)
             e == NextNL(txt, j)
         IN  IF /\ (j > i \/ i = 1)
                /\ j <= Len(txt) /\ txt[j] = "project_directory"
                /\ e # 0
             THEN RemoveProjectDirFrom(txt, e + 1)
             ELSE <<txt[i]>> \o RemoveProjectDirFrom(txt, i + 1)

clean_root(root_node, pdir, scene_start, scene_end) ==
    LET root_data == root_node.data
        a == IF /\ Contains(root_data, "project_directory")
                /\ knob_value(root_node, "project_directory") = <<>>
             THEN RemoveProjectDirFrom(root_data, 1)
             ELSE root_data
        b == IF ~Contains(a, "project_directory")
             THEN InsertAfterRootOpen(a, pdir) ELSE a
        c == IF ~Contains(b, "first_frame")
             THEN InsertAfterRootOpen(
                      b, <<" ", "first_frame", " ">> \o FormatValue(scene_start) \o <<NL>>)
             ELSE b
    IN  IF ~Contains(c, "last_frame")
        THEN InsertAfterRootOpen(
                 c, <<" ", "last_frame", " ">> \o FormatValue(scene_end) \o <<NL>>)
        ELSE c

\* "Sub new files": the loop over dep_data.items(), in the order the dict gives
RECURSIVE SubFiles(_, _, _, _)
SubFiles(order, deps, raw_scene_data, relative) ==
    IF order = <<>> THEN [err |-> "", txt |-> raw_scene_data]
    ELSE LET f    == Head(order)
             data == deps[f]
         IN  IF relative /\ data.relative_path = <<>>
             THEN [err |-> "ValueError", txt |-> raw_scene_data]
             ELSE SubFiles(Tail(order), deps,
                           ReSub(f, IF relative THEN data.relative_path
                                    ELSE data.packaged_path,
                                 raw_scene_data),
                           relative)

write_packaged_scene(scene_data, deps, order, root_node, pdir, scene_start, scene_end, relative) ==
    LET new_root == clean_root(root_node, pdir, scene_start, scene_end)
        raw == IF new_root # <<>>
               THEN LitSub(root_node.data, new_root, scene_data)
               ELSE scene_data
    IN  SubFiles(order, deps, raw, relative)

\* The orders dep_data.items() can give: the insertion order on Python 3, any
\* order on Python 2
SeqPermutations(seq) ==
    {[i \in 1..Len(seq) |-> seq[p[i]]] :
        p \in {q \in [1..Len(seq) -> 1..Len(seq)] :
                  \A i, j \in 1..Len(seq) : q[i] = q[j] => i = j}}

ItemOrders(order, py) == IF py = 3 THEN {order} ELSE SeqPermutations(order)

----------------------------------------------------------------------------
(* The scenes *)

P1 == <<"/", "a", "/", "b", ".", "exr">>
P2 == P1 \o <<".", "bak">>
P3 == <<"/", "a", "/", "b", "_", "exr">>
\* A path relative to the project directory
P4 == <<"b", "/", "b", ".", "exr">>

NodeNames == <<"n1", "n2", "n3", "n4", "n5", "n6">>

Knobs1(k1, v1) == (k1 :> v1)
Knobs2(k1, v1, k2, v2) == (k1 :> v1) @@ (k2 :> v2)

RootKnobs ==
    { Knobs2("first_frame", <<"1">>, "last_frame", <<"3">>),
      <<>>,
      Knobs2("first_frame", <<"1">>, "last_frame", <<"3">>)
          @@ Knobs1("project_directory", <<"\"\"">>),
      Knobs2("first_frame", <<"1">>, "last_frame", <<"3">>)
          @@ Knobs1("project_directory", <<"\"x\"">>) }

\* Scenes whose nodes differ in their file paths
PathShapes ==
    {[Class |-> c, knobs |-> Knobs1("file", f)] :
        c \in {"Read", "Write"}, f \in {P1, P2, P3}}
    \cup {[Class |-> "Read", knobs |-> Knobs1("file", P4)]}
    \cup {[Class |-> "Root", knobs |-> k] : k \in RootKnobs}

OptKnob(k, v) == IF v = <<>> THEN <<>> ELSE Knobs1(k, v)

\* Scenes whose nodes differ in their frame ranges
FrameShapes ==
    {[Class |-> "Read",
      knobs |-> Knobs1("file", P1) @@ OptKnob("first", a) @@ OptKnob("last", b)] :
        a \in {<<>>, <<"1">>, <<"2">>}, b \in {<<>>, <<"2">>, <<"3">>}}
    \cup {[Class |-> "Read",
           knobs |-> Knobs1("file", P3) @@ Knobs2("first", <<"1">>, "last", <<"2">>)],
          [Class |-> "Read", knobs |-> Knobs2("file", P1, "first", <<"x">>)],
          [Class |-> "Write",
           knobs |-> Knobs1("file", P1) @@ Knobs2("first", <<"1">>, "last", <<"4">>)],
          [Class |-> "Root",
           knobs |-> Knobs2("first_frame", <<"1">>, "last_frame", <<"3">>)],
          [Class |-> "Root", knobs |-> <<>>]}

Shapes(k) == IF k = "paths" THEN PathShapes ELSE FrameShapes

\* The i-th node of the scene: nuke names the nodes of a script apart
MakeNode(shape, i) == Node(shape.Class, shape.knobs @@ Knobs1("name", <<NodeNames[i]>>))

SceneText(ns) == Concat([i \in 1..Len(ns) |-> ns[i].data])

----------------------------------------------------------------------------
(* The run: load_scene_data, then write_packaged_scene *)

Locals ==
    [root |-> root, dep_data |-> dep_data, dep_order |-> dep_order,
     start |-> start, end |-> end, file |-> file, dst |-> dst, rel |-> rel,
     err |-> err]

SceneInit(k) ==
    /\ kind = k
    /\ pyver \in {2, 3}
    /\ relative_paths \in (IF k = "paths" THEN BOOLEAN ELSE {TRUE})
    /\ pc = "loading"
    /\ nodes = <<>>
    /\ root = <<>>
    /\ dep_data = <<>>
    /\ dep_order = <<>>
    /\ start = None
    /\ end = None
    /\ file = <<>>
    /\ dst = NoPath
    /\ rel = NoPath
    /\ err = ""
    /\ scene_txt = <<>>
    /\ scene_out = <<>>

SceneIdle ==
    /\ kind = "idle"
    /\ pyver = 3
    /\ relative_paths = TRUE
    /\ pc = "idle"
    /\ nodes = <<>>
    /\ root = <<>>
    /\ dep_data = <<>>
    /\ dep_order = <<>>
    /\ start = None
    /\ end = None
    /\ file = <<>>
    /\ dst = NoPath
    /\ rel = NoPath
    /\ err = ""
    /\ scene_txt = <<>>
    /\ scene_out = <<>>

\* One iteration of the loop over the parsed nodes of the scene
LoadNode ==
    /\ pc = "loading"
    /\ Len(nodes) < MaxNodes
    /\ \E shape \in Shapes(kind) :
       \E node \in {MakeNode(shape, Len(nodes) + 1)} :
       \E L \in {ProcessNode(Locals, node, pyver, relative_paths)} :
            /\ nodes' = Append(nodes, node)
            /\ root' = L.root
            /\ dep_data' = L.dep_data
            /\ dep_order' = L.dep_order
            /\ start' = L.start
            /\ end' = L.end
            /\ file' = L.file
            /\ dst' = L.dst
            /\ rel' = L.rel
            /\ err' = L.err
            /\ pc' = IF L.err # "" THEN "failed" ELSE "loading"
    /\ UNCHANGED <<kind, pyver, relative_paths, scene_txt, scene_out>>
    /\ UNCHANGED <<parserVars, renameVars, relVars, rootVars, runVars,
                dstVars, manifestVars, batchVars, deleteVars>>

\* "if root is None"
RootMissingMut(r) == FALSE
RootMissing(r) == r = <<>>

NoRootError == "ValueError: no Root node found"

\* The loop ends: "if root is None: raise ValueError", else the data is
\* returned; Packager.load_scene_data keeps the returned start and end as the
\* scene start and end
FinishLoad ==
    /\ pc = "loading"
    /\ IF RootMissing(root)
       THEN pc' = "failed" /\ err' = NoRootError
       ELSE pc' = "loaded" /\ err' = err
    /\ UNCHANGED <<kind, pyver, relative_paths, nodes, root, dep_data, dep_order,
                   start, end, file, dst, rel, scene_txt, scene_out>>
    /\ UNCHANGED <<parserVars, renameVars, relVars, rootVars, runVars,
                dstVars, manifestVars, batchVars, deleteVars>>

\* The scene file with the line ends of a Windows text file
RECURSIVE CRLF(_)
CRLF(txt) ==
    IF txt = <<>> THEN <<>>
    ELSE (IF Head(txt) = NL THEN <<"\r", NL>> ELSE <<Head(txt)>>) \o CRLF(Tail(txt))

\* What "open(source_scene, 'r').read()" gives for the file parse_nodes read
\* with io.open: the same text on Python 3 (both translate line ends); on
\* Python 2 open() leaves the line ends of the file as they are
ReadTexts(ns, py) ==
    {SceneText(ns)} \cup (IF py = 2 THEN {CRLF(SceneText(ns))} ELSE {})

\* write_packaged_scene on the loaded data
WriteScene ==
    /\ pc = "loaded"
    /\ \E order \in ItemOrders(dep_order, pyver) :
       \E txt \in ReadTexts(nodes, pyver) :
       \E res \in {write_packaged_scene(txt, dep_data, order, root[1],
                                        ProjectDir, start, end, relative_paths)} :
            /\ scene_txt' = txt
            /\ err' = res.err
            /\ scene_out' = IF res.err = "" THEN res.txt ELSE scene_out
            /\ pc' = IF res.err = "" THEN "written" ELSE "failed"
    /\ UNCHANGED <<kind, pyver, relative_paths, nodes, root, dep_data, dep_order,
                   start, end, file, dst, rel>>
    /\ UNCHANGED <<parserVars, renameVars, relVars, rootVars, runVars,
                dstVars, manifestVars, batchVars, deleteVars>>

----------------------------------------------------------------------------
(* clean_root on any Root block *)

\* The knob lines a Root block is made of, as name and value; the value of
\* the label knob is a text that mentions first_frame
RootLineMenu ==
    { <<"project_directory", "\"\"">>, <<"project_directory", "\"x\"">>,
      <<"first_frame", "1">>, <<"last_frame", "3">>,
      <<"fps", "24">>, <<"name", "n1">>, <<"label", "first_frame">> }

KnobLine(kv) == <<" ", kv[1], " ", kv[2], NL>>

\* The Root blocks of up to MaxRootKnobs knobs, no knob twice
RootLineSeqs ==
    {s \in SeqsUpTo(RootLineMenu, MaxRootKnobs) :
        \A i, j \in 1..Len(s) : s[i][1] = s[j][1] => i = j}

\* ParsedNode of the Root block with these knob lines
RootFromLines(kls) ==
    [Class |-> "Root",
     knobs |-> [k \in {kls[i][1] : i \in 1..Len(kls)} |->
                   <<(CHOOSE kv \in {kls[i] : i \in 1..Len(kls)} : kv[1] = k)[2]>>],
     data  |-> RootOpen \o Concat([i \in 1..Len(kls) |-> KnobLine(kls[i])])
                 \o <<"}", NL>>]

RootInit ==
    /\ cr_pc = "ready"
    /\ cr_in \in [lines : RootLineSeqs,
                   start : {None, IntV(1), IntV(2)},
                   end   : {None, IntV(3)}]
    /\ cr_out = <<>>

RootIdle ==
    /\ cr_pc = "idle"
    /\ cr_in = [lines |-> <<>>, start |-> None, end |-> None]
    /\ cr_out = <<>>

CallCleanRoot ==
    /\ cr_pc = "ready"
    /\ cr_out' = clean_root(RootFromLines(cr_in.lines), ProjectDir,
                            cr_in.start, cr_in.end)
    /\ cr_pc' = "done"
    /\ UNCHANGED cr_in
    /\ UNCHANGED <<parserVars, sceneVars, renameVars, relVars, runVars,
                dstVars, manifestVars, batchVars, deleteVars>>

----------------------------------------------------------------------------
(* Packager.run and the package directory *)

\* The package root directory: whether it exists, the entries under it, and
\* the package_root recorded in the package metadata file found under it.
\* "meta" is nk/package_info/package_metadata.json, "sub_meta" a file of the
\* same name elsewhere under the root, "other" any other entry.
Absent == [exists |-> FALSE, entries |-> {}, recorded |-> "none"]

MetaNames == {"meta", "sub_meta"}

\* find_existing_packages: the metadata files found by os.walk
find_existing_packages(d) == d.entries \cap MetaNames

DirStates ==
    {Absent}
    \cup {[exists |-> TRUE, entries |-> e, recorded |-> r] :
             e \in SUBSET {"meta", "sub_meta", "other"},
             r \in {"none", "target", "elsewhere"}}

\* The directories that can be there when the packager is constructed: the
\* recorded root is that of the metadata file, if there is one
InitialDirs ==
    {d \in DirStates :
        (d.recorded = "none") <=> (find_existing_packages(d) = {})}

\* check_available_dir: os.listdir raises ENOENT for a missing directory
check_available_dirMut(d) == TRUE
check_available_dir(d) ==
    LET listed == IF d.exists THEN [errno |-> "", names |-> d.entries]
                  ELSE [errno |-> "ENOENT", names |-> {}]
    IN  IF listed.errno = "" /\ listed.names # {} THEN FALSE ELSE TRUE

ExistsError == "RuntimeError: package already exists"

\* "package_root != os.path.abspath(data[package_settings][package_root])"
RecordedRootDiffersMut(d) == FALSE
RecordedRootDiffers(d) == d.recorded # "target"

\* check_existing_package: the error it raises, "" when it returns
check_existing_package(d) ==
    LET existing == find_existing_packages(d)
    IN  IF ~d.exists THEN ""
        ELSE IF Cardinality(existing) = 0 /\ d.entries # {}
        THEN "RuntimeError: no metadata found"
        ELSE IF Cardinality(existing) > 1
        THEN "RuntimeError: multiple metadata found"
        ELSE IF Cardinality(existing) = 0 THEN "IndexError"
        ELSE IF RecordedRootDiffers(d) THEN "RuntimeError: different root"
        ELSE ""

\* remove_existing_package: the error it raises, the directory it leaves and
\* the changes it made to the file system
remove_existing_package(d, system, tmp_exists) ==
    LET kept(e) == [err |-> e, dir |-> d, log |-> <<>>]
    IN  IF system # "Windows" THEN kept("NotImplementedError")
        ELSE IF ~d.exists THEN kept("OSError: no package root")
        ELSE IF check_existing_package(d) # "" THEN kept(check_existing_package(d))
        ELSE IF tmp_exists THEN kept("OSError: tmp dir exists")
        ELSE [err |-> "", dir |-> Absent, log |-> <<"rename", "rmtree">>]

\* The calls of run, pre_package and package in the order of the code: the
\* step that follows the position pcv
StepAfterMut(pcv) ==
    CASE pcv = "running"   -> "validate"
      [] pcv = "validated" -> "extract"
      [] pcv = "extracted" -> "backup"
      [] pcv = "backed_up" -> "metadata"
      [] pcv = "metadata"  -> "manifest"
      [] pcv = "manifest"  -> "copy"
      [] pcv = "copied"    -> "rewrite"
      [] pcv = "rewritten" -> "finish"
      [] OTHER -> "none"
StepAfter(pcv) ==
    CASE pcv = "running"   -> "validate"
      [] pcv = "validated" -> "extract"
      [] pcv = "extracted" -> "backup"
      [] pcv = "backed_up" -> "metadata"
      [] pcv = "metadata"  -> "manifest"
      [] pcv = "manifest"  -> "rewrite"
      [] pcv = "rewritten" -> "copy"
      [] pcv = "copied"    -> "finish"
      [] OTHER -> "none"

\* "if self.mode < 2": the steps that write
WritesFiles(m) == m < 2
\* "if 0 == self.mode": the file copy
CopiesFilesMut(m) == m < 2
CopiesFiles(m) == 0 = m

Modes == {0, 1, 2}

RunInit ==
    /\ r_pc = "ready"
    /\ mode = 0
    /\ overwrite = FALSE
    /\ platform \in {"Windows", "Linux"}
    /\ src_scene \in {"good", "no_root"}
    /\ fs \in InitialDirs
    /\ fs0 = fs
    /\ tmp \in BOOLEAN
    /\ steps = <<>>
    /\ fs_log = <<>>
    /\ r_err = ""
    /\ runs = <<>>

RunIdle ==
    /\ r_pc = "idle"
    /\ mode = 0
    /\ overwrite = FALSE
    /\ platform = "Linux"
    /\ src_scene = "good"
    /\ fs = Absent
    /\ fs0 = Absent
    /\ tmp = FALSE
    /\ steps = <<>>
    /\ fs_log = <<>>
    /\ r_err = ""
    /\ runs = <<>>

RunFixed == <<platform, src_scene, tmp>>

\* The step raises
Raise(e) ==
    /\ r_pc' = "failed"
    /\ r_err' = e
    /\ runs' = Append(runs, e)

\* The step returns
Reach(pcv) ==
    /\ r_pc' = pcv
    /\ UNCHANGED <<r_err, runs>>

\* run(overwrite, mode) is called on the packager: set_mode
CallRun ==
    /\ r_pc \in {"ready", "done", "failed"}
    /\ Len(runs) < MaxRuns
    /\ mode' \in Modes
    /\ overwrite' \in BOOLEAN
    /\ r_pc' = "running"
    /\ fs0' = fs
    /\ steps' = <<>>
    /\ fs_log' = <<>>
    /\ r_err' = ""
    /\ UNCHANGED <<fs, runs, RunFixed>>
    /\ UNCHANGED <<parserVars, sceneVars, renameVars, relVars, rootVars,
                dstVars, manifestVars, batchVars, deleteVars>>

\* "Check for existing package" and "Remove existing"
Validate ==
    /\ StepAfter(r_pc) = "validate"
    /\ steps' = Append(steps, "validate")
    /\ LET avail == check_available_dir(fs)
       IN  IF ~avail /\ ~overwrite
           THEN Raise(ExistsError) /\ UNCHANGED <<fs, fs_log>>
           ELSE IF ~avail /\ overwrite /\ WritesFiles(mode)
           THEN LET res == remove_existing_package(fs, platform, tmp)
                IN  /\ fs' = res.dir
                    /\ fs_log' = fs_log \o res.log
                    /\ IF res.err # "" THEN Raise(res.err) ELSE Reach("validated")
           ELSE Reach("validated") /\ UNCHANGED <<fs, fs_log>>
    /\ UNCHANGED <<mode, overwrite, fs0, RunFixed>>
    /\ UNCHANGED <<parserVars, sceneVars, renameVars, relVars, rootVars,
                dstVars, manifestVars, batchVars, deleteVars>>

\* self.load_scene_data(): reads the scene, raises for a scene without Root
Extract ==
    /\ StepAfter(r_pc) = "extract"
    /\ steps' = Append(steps, "extract")
    /\ IF src_scene = "no_root" THEN Raise(NoRootError) ELSE Reach("extracted")
    /\ UNCHANGED <<mode, overwrite, fs, fs0, fs_log, RunFixed>>
    /\ UNCHANGED <<parserVars, sceneVars, renameVars, relVars, rootVars,
                dstVars, manifestVars, batchVars, deleteVars>>

\* A step of pre_package that writes the entry when the mode writes files;
\* the write can fail with an IOError
WriteStep(step, entry, op, pcv) ==
    /\ StepAfter(r_pc) = step
    /\ steps' = Append(steps, step)
    /\ IF WritesFiles(mode)
       THEN \E ok \in BOOLEAN :
              IF ok
              THEN /\ fs' = [fs EXCEPT !.exists = TRUE,
                                       !.entries = @ \cup {entry},
                                       !.recorded = IF entry = "meta" THEN "target" ELSE @]
                   /\ fs_log' = Append(fs_log, op)
                   /\ Reach(pcv)
              ELSE /\ UNCHANGED <<fs, fs_log>>
                   /\ Raise("IOError")
       ELSE /\ UNCHANGED <<fs, fs_log>>
            /\ Reach(pcv)
    /\ UNCHANGED <<mode, overwrite, fs0, RunFixed>>
    /\ UNCHANGED <<parserVars, sceneVars, renameVars, relVars, rootVars,
                dstVars, manifestVars, batchVars, deleteVars>>

\* pre_package: utils.copy_file(self.scene, self.source_scene_backup), which
\* leaves a backup file that is already there
Backup ==
    IF "backup" \in fs.entries
    THEN /\ StepAfter(r_pc) = "backup"
         /\ steps' = Append(steps, "backup")
         /\ Reach("backed_up")
         /\ UNCHANGED <<mode, overwrite, fs, fs0, fs_log, RunFixed>>
         /\ UNCHANGED <<parserVars, sceneVars, renameVars, relVars, rootVars,
                     dstVars, manifestVars, batchVars, deleteVars>>
    ELSE WriteStep("backup", "backup", "copy_backup", "backed_up")

\* pre_package: self.write_package_metadata()
WriteMetadata == WriteStep("metadata", "meta", "write_metadata", "metadata")

\* pre_package: self.write_filecopy_metadata()
WriteManifest == WriteStep("manifest", "manifest", "write_manifest", "manifest")

\* package: "if self.mode < 2: self.write_packaged_scene()"
Rewrite ==
    /\ StepAfter(r_pc) = "rewrite"
    /\ IF WritesFiles(mode)
       THEN /\ steps' = Append(steps, "rewrite")
            /\ \E ok \in BOOLEAN :
                 IF ok
                 THEN /\ fs' = [fs EXCEPT !.exists = TRUE, !.entries = @ \cup {"scene"}]
                      /\ fs_log' = Append(fs_log, "write_scene")
                      /\ Reach("rewritten")
                 ELSE /\ UNCHANGED <<fs, fs_log>>
                      /\ Raise("IOError")
       ELSE /\ UNCHANGED <<steps, fs, fs_log>>
            /\ Reach("rewritten")
    /\ UNCHANGED <<mode, overwrite, fs0, RunFixed>>
    /\ UNCHANGED <<parserVars, sceneVars, renameVars, relVars, rootVars,
                dstVars, manifestVars, batchVars, deleteVars>>

\* package: "if 0 == self.mode: batch_copy.copy_files(self.filecopy_metadata)"
CopyFiles ==
    /\ StepAfter(r_pc) = "copy"
    /\ IF CopiesFiles(mode)
       THEN /\ steps' = Append(steps, "copy")
            /\ \E ok \in BOOLEAN :
                 IF ok
                 THEN /\ fs' = [fs EXCEPT !.exists = TRUE, !.entries = @ \cup {"deps"}]
                      /\ fs_log' = Append(fs_log, "copy_files")
                      /\ Reach("copied")
                 ELSE /\ UNCHANGED <<fs, fs_log>>
                      /\ Raise("IOError")
       ELSE /\ UNCHANGED <<steps, fs, fs_log>>
            /\ Reach("copied")
    /\ UNCHANGED <<mode, overwrite, fs0, RunFixed>>
    /\ UNCHANGED <<parserVars, sceneVars, renameVars, relVars, rootVars,
                dstVars, manifestVars, batchVars, deleteVars>>

\* post_package and the end of run
Finish ==
    /\ StepAfter(r_pc) = "finish"
    /\ r_pc' = "done"
    /\ runs' = Append(runs, "done")
    /\ UNCHANGED <<mode, overwrite, fs, fs0, steps, fs_log, r_err, RunFixed>>
    /\ UNCHANGED <<parserVars, sceneVars, renameVars, relVars, rootVars,
                dstVars, manifestVars, batchVars, deleteVars>>

----------------------------------------------------------------------------
(* basic_package_dst_path on any source path *)

\* The directories and the file names the source paths are made of
DstDirMenu ==
    { <<>>,
      <<"/", "a", "/">>,
      <<"\\", "a", "\\">>,
      <<"/", "a", "/", "v", "003", "/">>,
      <<"/", "v", "003", "/", "a", "/", "v", "010", "/">>,
      <<"/", "a", "/", "v", "/">> }

DstNameMenu ==
    { <<"b", ".", "exr">>,
      <<"b", ".", "####", ".", "exr">>,
      <<"b", "_", "%04d", ".", "exr">>,
      <<"b", ".", "003", ".", "exr">>,
      <<"*", ".", "exr">>,
      <<"####", ".", "exr">>,
      <<"b">>,
      <<"b", ".", "tar", ".", "gz">> }

DstParentMenu == {<<"/", "pkg">>, <<"/", "pkg", "/", "n1", "/">>}

DstInit ==
    /\ bd_pc = "call"
    /\ bd_in \in [src : {d \o n : d \in DstDirMenu, n \in DstNameMenu},
                  dir : DstParentMenu]
    /\ bd_out = NoPath

DstIdle ==
    /\ bd_pc = "idle"
    /\ bd_in = [src |-> NoPath, dir |-> NoPath]
    /\ bd_out = NoPath

\* scene_packager_config.get_packaged_path(file, parent_dir)
CallPackagedPath ==
    /\ bd_pc = "call"
    /\ bd_out' = get_packaged_path(bd_in.src, bd_in.dir)
    /\ bd_pc' = "done"
    /\ UNCHANGED bd_in
    /\ UNCHANGED <<parserVars, sceneVars, renameVars, relVars, rootVars, runVars,
                   manifestVars, batchVars, deleteVars>>

----------------------------------------------------------------------------
(* get_frame_glob_path and Packager.get_filecopy_metadata *)

\* os.path.splitext(path)
Splitext(path) ==
    LET name == Basename(path)
        b == SplitextBase(name)
    IN  [base |-> Take(path, Len(path) - Len(name)) \o b,
         ext  |-> Drop(name, Len(b))]

\* re.sub(FRAME_PAD_REGEX, "*", base): a run of "#", a number or a "%0Nd" at
\* the end of the base, after a "_" or a "."
GlobBase(base) ==
    IF Len(base) >= 2 /\ base[Len(base)] \in (FramePads \cup Digits)
                      /\ base[Len(base) - 1] \in {"_", "."}
    THEN Take(base, Len(base) - 1) \o <<"*">>
    ELSE base

get_frame_glob_path(filepath) ==
    LET s == Splitext(clean_path(filepath))
    IN  GlobBase(s.base) \o s.ext

\* list(range(start, end + 1))
FrameList(a, b) == [i \in 1..(b - a + 1) |-> a + i - 1]

\* "for src_path, data in self.dep_data.items()", the items in the order the
\* dict gives them
RECURSIVE DepsToCopy(_, _, _)
DepsToCopy(items, use_frame_limit, to_copy) ==
    IF items = <<>> THEN to_copy
    ELSE LET data == Head(items)
             frames == IF use_frame_limit /\ data.start # <<>> /\ data.end # <<>>
                       THEN FrameList(data.start[1], data.end[1])
                       ELSE <<>>
             entry == [dst |-> get_frame_glob_path(data.packaged_path),
                       frames |-> frames]
         IN  DepsToCopy(Tail(items), use_frame_limit,
                        (get_frame_glob_path(data.src) :> entry) @@ to_copy)

\* "for src_glob, dst in self.settings.get('extra_files', {}).items()"
RECURSIVE ExtraToCopy(_, _)
ExtraToCopy(items, to_copy) ==
    IF items = <<>> THEN to_copy
    ELSE LET e == Head(items)
         IN  IF e.src \in DOMAIN to_copy
             THEN ExtraToCopy(Tail(items), to_copy)
             ELSE ExtraToCopy(Tail(items),
                              to_copy @@ (e.src :> [dst |-> get_frame_glob_path(e.dst),
                                                    frames |-> <<>>]))

\* "Load fresh"
LoadFresh(items, extra, use_frame_limit) ==
    ExtraToCopy(extra, DepsToCopy(items, use_frame_limit, <<>>))

\* get_filecopy_metadata(reload): the value it returns and stores
get_filecopy_metadata(cached, items, extra, use_frame_limit, reload) ==
    IF ~reload /\ cached # <<>> THEN cached
    ELSE LoadFresh(items, extra, use_frame_limit)

\* Source paths of dependencies: two frames of one sequence, a padded
\* sequence, a single file
G1 == <<"/", "a", "/", "b", ".", "003", ".", "exr">>
G2 == <<"/", "a", "/", "b", ".", "010", ".", "exr">>
G3 == <<"/", "a", "/", "c", ".", "####", ".", "exr">>
G4 == <<"/", "a", "/", "d", ".", "exr">>

\* An item of dep_data as load_scene_data records it for the i-th node
Dep(f, i, a, b) ==
    [src |-> f,
     packaged_path |->
         get_packaged_path(f, PathJoin(PathJoin(PackageRoot, <<"images", "/", "inputs">>),
                                       <<NodeNames[i]>>)),
     start |-> a, end |-> b]

\* The dependency maps of the scenes, as the items the dict gives
ManifestScenes ==
    { <<>>,
      <<Dep(G1, 1, <<1>>, <<2>>)>>,
      <<Dep(G1, 1, <<1>>, <<2>>), Dep(G2, 2, <<>>, <<>>)>>,
      <<Dep(G2, 2, <<>>, <<>>), Dep(G1, 1, <<1>>, <<2>>)>>,
      <<Dep(G3, 1, <<2>>, <<>>)>>,
      <<Dep(G3, 1, <<1>>, <<3>>), Dep(G4, 2, <<>>, <<>>)>> }

\* settings["extra_files"]: none, a file of its own, a file under the source
\* glob of a dependency
ExtraMenu ==
    { <<>>,
      <<[src |-> <<"/", "a", "/", "e", ".", "txt">>,
         dst |-> <<"/", "pkg", "/", "extra", "/", "e", ".", "txt">>]>>,
      <<[src |-> get_frame_glob_path(G1),
         dst |-> <<"/", "pkg", "/", "extra", "/", "b", ".", "003", ".", "exr">>]>> }

\* Packager.__init__: no dependency data, no file copy metadata
ManifestInit ==
    /\ m_pc = "ready"
    /\ m_mode = 0
    /\ m_scene \in ManifestScenes
    /\ m_deps = <<>>
    /\ m_extra \in ExtraMenu
    /\ m_limit \in BOOLEAN
    /\ filecopy_metadata = <<>>
    /\ m_written = <<>>
    /\ m_copied = <<>>
    /\ m_runs = 0

ManifestIdle ==
    /\ m_pc = "idle"
    /\ m_mode = 0
    /\ m_scene = <<>>
    /\ m_deps = <<>>
    /\ m_extra = <<>>
    /\ m_limit = FALSE
    /\ filecopy_metadata = <<>>
    /\ m_written = <<>>
    /\ m_copied = <<>>
    /\ m_runs = 0

\* set_scene_file(scene, settings): clears dep_data, sets the scene and
\* initializes the settings
SetSceneFile ==
    /\ m_pc \in {"ready", "ran"}
    /\ m_runs < MaxRuns
    /\ m_pc' = "ready"
    /\ m_scene' \in ManifestScenes
    /\ m_extra' \in ExtraMenu
    /\ m_deps' = <<>>
    /\ UNCHANGED <<m_mode, m_limit, filecopy_metadata, m_written, m_copied, m_runs>>
    /\ UNCHANGED <<parserVars, sceneVars, renameVars, relVars, rootVars, runVars,
                   dstVars, batchVars, deleteVars>>

\* run(mode) on a free package root: load_scene_data, write_filecopy_metadata
\* in pre_package, batch_copy.copy_files(self.filecopy_metadata) in package
RunManifest ==
    /\ m_pc \in {"ready", "ran"}
    /\ m_runs < MaxRuns
    /\ \E md \in Modes :
       \E data \in {get_filecopy_metadata(filecopy_metadata, m_scene, m_extra,
                                          m_limit, FALSE)} :
            /\ m_mode' = md
            /\ m_deps' = m_scene
            /\ filecopy_metadata' = data
            /\ m_written' = IF WritesFiles(md) THEN <<data>> ELSE <<>>
            /\ m_copied' = IF CopiesFiles(md) THEN <<filecopy_metadata'>> ELSE <<>>
    /\ m_pc' = "ran"
    /\ m_runs' = m_runs + 1
    /\ UNCHANGED <<m_scene, m_extra, m_limit>>
    /\ UNCHANGED <<parserVars, sceneVars, renameVars, relVars, rootVars, runVars,
                   dstVars, batchVars, deleteVars>>

----------------------------------------------------------------------------
(* package_scene and package_scenes *)

MaxScenes == 3

\* The scenes of a batch: two that do not exist, two that package, one
\* without a Root node, one whose package root is taken
SceneOrder == <<"a.nk", "b.nk", "m1.nk", "m2.nk", "noroot.nk", "taken.nk">>
BatchScenes == {SceneOrder[k] : k \in 1..Len(SceneOrder)}

IsFile(scene) == scene \notin {"m1.nk", "m2.nk"}

NoException == [type |-> "", msg |-> <<>>]

\* package_scene: the exception it raises, NoException when it returns
package_scene(scene) ==
    IF ~IsFile(scene)
    THEN [type |-> "ValueError", msg |-> <<"Scene does not exist", "! ", scene>>]
    ELSE IF scene = "noroot.nk"
    THEN [type |-> "ValueError", msg |-> <<"Error: no Root node found!">>]
    ELSE IF scene = "taken.nk"
    THEN [type |-> "RuntimeError", msg |-> <<"Package already exists at: ">>]
    ELSE NoException

\* "".join(traceback.format_exception(type(e), e, None))
tb_message(e) == <<e.type, ": ">> \o e.msg \o <<NL>>

\* tb_message.startswith("Scene does not exist")
ReportsMissingScene(e) == StartsWith(tb_message(e), <<"Scene does not exist">>)

Repeat(x, n) == [i \in 1..n |-> x]

\* sorted(dne)
Sorted(scenes) ==
    Concat([k \in 1..Len(SceneOrder) |->
               Repeat(SceneOrder[k], Count(scenes, SceneOrder[k]))])

\* ValueError("The following input scenes did not exist: ...")
MissingScenesError(scenes) ==
    [type |-> "ValueError",
     msg |-> <<"The following input scenes did not exist: ">> \o Sorted(scenes)]

BatchInit ==
    /\ b_pc = "loop"
    /\ b_scenes \in SeqsUpTo(BatchScenes, MaxScenes)
    /\ b_i = 1
    /\ dne = <<>>
    /\ ids = <<>>
    /\ b_err = NoException

BatchIdle ==
    /\ b_pc = "idle"
    /\ b_scenes = <<>>
    /\ b_i = 1
    /\ dne = <<>>
    /\ ids = <<>>
    /\ b_err = NoException

\* One iteration of "for scene in scenes"
PackageNext ==
    /\ b_pc = "loop"
    /\ b_i <= Len(b_scenes)
    /\ \E e \in {package_scene(b_scenes[b_i])} :
        IF e = NoException
        THEN /\ ids' = Append(ids, b_scenes[b_i])
             /\ b_i' = b_i + 1
             /\ UNCHANGED <<b_pc, dne, b_err>>
        ELSE IF e.type = "ValueError" /\ ReportsMissingScene(e)
        THEN /\ dne' = Append(dne, b_scenes[b_i])
             /\ b_i' = b_i + 1
             /\ UNCHANGED <<b_pc, ids, b_err>>
        ELSE /\ b_pc' = "raised"
             /\ b_err' = e
             /\ UNCHANGED <<b_i, dne, ids>>
    /\ UNCHANGED b_scenes
    /\ UNCHANGED <<parserVars, sceneVars, renameVars, relVars, rootVars, runVars,
                   dstVars, manifestVars, deleteVars>>

\* After the loop: "if dne: raise ValueError", else "return ids"
BatchEnd ==
    /\ b_pc = "loop"
    /\ b_i > Len(b_scenes)
    /\ IF dne # <<>>
       THEN b_pc' = "raised" /\ b_err' = MissingScenesError(dne)
       ELSE b_pc' = "returned" /\ b_err' = b_err
    /\ UNCHANGED <<b_scenes, b_i, dne, ids>>
    /\ UNCHANGED <<parserVars, sceneVars, renameVars, relVars, rootVars, runVars,
                   dstVars, manifestVars, deleteVars>>

----------------------------------------------------------------------------
(* remove_existing_package with a detached removal *)

MaxClock == 1
MaxPackages == 2

\* The package root, the directories "<tmp_dir>/<name>_<date to the second>"
\* a package is renamed to under a given tmp_dir, and those under a fresh
\* tempfile.mkdtemp() directory, one per removed package
PackageRootDir == <<"root", 0>>
TmpPath(c) == <<"tmp", c>>
MkdtempPath(g) == <<"mkdtemp", g>>
DirPaths ==
    {PackageRootDir} \cup {TmpPath(c) : c \in 0..MaxClock}
             \cup {MkdtempPath(g) : g \in 1..MaxPackages}

NoDir == [exists |-> FALSE, entries |-> {}]

MetadataFile == "package_metadata.json"

\* The files of the g-th package written under the package root
PackageFiles(g) == {[gen |-> g, name |-> n] : n \in {MetadataFile, "s.nk"}}

\* check_existing_package on a directory that exists: the error it raises,
\* "" when the directory holds the metadata of a package of this root
PackageCheckError(d) ==
    IF \E f \in d.entries : f.name = MetadataFile THEN ""
    ELSE IF d.entries # {} THEN "RuntimeError: no package metadata"
    ELSE "IndexError"

\* The path that is removed after the rename: "shutil.rmtree(tmp_package_root)"
\* or "spawn_remove_subprocess(tmp_package_root)"
RemoveTargetMut(tmp_package_root, package_root) == package_root
RemoveTarget(tmp_package_root, package_root) == tmp_package_root

DeleteInit ==
    /\ d_pc = "ready"
    /\ dirs = [p \in DirPaths |-> NoDir]
    /\ d_target = [path |-> PackageRootDir, gen |-> 0]
    /\ d_subproc = FALSE
    /\ jobs = {}
    /\ d_clock = 0
    /\ d_gen = 0
    /\ d_deleted = {}
    /\ d_err = ""

DeleteIdle ==
    /\ d_pc = "idle"
    /\ dirs = <<>>
    /\ d_target = [path |-> PackageRootDir, gen |-> 0]
    /\ d_subproc = FALSE
    /\ jobs = {}
    /\ d_clock = 0
    /\ d_gen = 0
    /\ d_deleted = {}
    /\ d_err = ""

DeleteOthers ==
    <<parserVars, sceneVars, renameVars, relVars, rootVars, runVars,
      dstVars, manifestVars, batchVars>>

\* A run writes a package under the package root, which is free
WritePackage ==
    /\ d_pc = "ready"
    /\ d_gen < MaxPackages
    /\ check_available_dir(dirs[PackageRootDir])
    /\ d_gen' = d_gen + 1
    /\ dirs' = [dirs EXCEPT ![PackageRootDir] =
                   [exists |-> TRUE, entries |-> PackageFiles(d_gen + 1)]]
    /\ UNCHANGED <<d_pc, d_target, d_subproc, jobs, d_clock, d_deleted, d_err>>
    /\ UNCHANGED DeleteOthers

\* remove_existing_package up to the test of the temporary path
BeginRemove ==
    /\ d_pc = "ready"
    /\ \E system \in {"Windows", "Linux"} :
       \E subproc \in BOOLEAN :
       \E tmp_dir \in BOOLEAN :
       \E d \in {dirs[PackageRootDir]} :
            /\ d_subproc' = subproc
            /\ IF system # "Windows"
               THEN /\ d_err' = "NotImplementedError"
                    /\ UNCHANGED <<d_pc, d_target>>
               ELSE IF ~d.exists
               THEN /\ d_err' = "OSError: no package root"
                    /\ UNCHANGED <<d_pc, d_target>>
               ELSE IF PackageCheckError(d) # ""
               THEN /\ d_err' = PackageCheckError(d)
                    /\ UNCHANGED <<d_pc, d_target>>
               ELSE \E g \in {(CHOOSE f \in d.entries : TRUE).gen} :
                    \E to \in {IF tmp_dir THEN TmpPath(d_clock) ELSE MkdtempPath(g)} :
                        IF dirs[to].exists
                        THEN /\ d_err' = "OSError: tmp dir exists"
                             /\ UNCHANGED <<d_pc, d_target>>
                        ELSE /\ d_err' = ""
                             /\ d_pc' = "checked"
                             /\ d_target' = [path |-> to, gen |-> g]
    /\ UNCHANGED <<dirs, jobs, d_clock, d_gen, d_deleted>>
    /\ UNCHANGED DeleteOthers

\* "os.rename(package_root, tmp_package_root)"
Rename ==
    /\ d_pc = "checked"
    /\ IF dirs[d_target.path].exists
       THEN /\ d_err' = "OSError: rename"
            /\ d_pc' = "ready"
            /\ UNCHANGED dirs
       ELSE /\ d_err' = ""
            /\ d_pc' = "renamed"
            /\ dirs' = [dirs EXCEPT ![d_target.path] = dirs[PackageRootDir],
                                    ![PackageRootDir] = NoDir]
    /\ UNCHANGED <<d_target, d_subproc, jobs, d_clock, d_gen, d_deleted>>
    /\ UNCHANGED DeleteOthers

\* "if subproc: spawn_remove_subprocess(...) else: shutil.rmtree(...)", and
\* remove_existing_package returns
Remove ==
    /\ d_pc = "renamed"
    /\ \E to \in {RemoveTarget(d_target.path, PackageRootDir)} :
        IF d_subproc
        THEN \E started \in BOOLEAN :
             /\ jobs' = IF started
                        THEN jobs \cup {[target |-> to, gen |-> d_target.gen]}
                        ELSE jobs
             /\ d_err' = IF started THEN "" ELSE "Failed to start subprocess"
             /\ UNCHANGED <<dirs, d_deleted>>
        ELSE IF ~dirs[to].exists
        THEN /\ d_err' = "OSError: rmtree"
             /\ UNCHANGED <<dirs, jobs, d_deleted>>
        ELSE /\ dirs' = [dirs EXCEPT ![to] = NoDir]
             /\ d_deleted' = d_deleted \cup
                    {[file |-> f, path |-> to, gen |-> d_target.gen] :
                        f \in dirs[to].entries}
             /\ d_err' = ""
             /\ UNCHANGED jobs
    /\ d_pc' = "ready"
    /\ UNCHANGED <<d_target, d_subproc, d_clock, d_gen>>
    /\ UNCHANGED DeleteOthers

\* A step of a detached removal: it removes one file of the directory at its
\* path, the empty directory at last, and ends when there is no directory
DeleteStep ==
    /\ \E j \in jobs :
        LET d == dirs[j.target]
        IN  IF ~d.exists
            THEN /\ jobs' = jobs \ {j}
                 /\ UNCHANGED <<dirs, d_deleted>>
            ELSE IF d.entries = {}
            THEN /\ dirs' = [dirs EXCEPT ![j.target] = NoDir]
                 /\ jobs' = jobs \ {j}
                 /\ UNCHANGED d_deleted
            ELSE \E f \in d.entries :
                 /\ dirs' = [dirs EXCEPT ![j.target].entries = @ \ {f}]
                 /\ d_deleted' = d_deleted \cup
                        {[file |-> f, path |-> j.target, gen |-> j.gen]}
                 /\ UNCHANGED jobs
    /\ UNCHANGED <<d_pc, d_target, d_subproc, d_clock, d_gen, d_err>>
    /\ UNCHANGED DeleteOthers

\* A second passes: datetime.now() gives the next temporary path
Tick ==
    /\ d_clock < MaxClock
    /\ d_clock' = d_clock + 1
    /\ UNCHANGED <<d_pc, dirs, d_target, d_subproc, jobs, d_gen, d_deleted, d_err>>
    /\ UNCHANGED DeleteOthers

----------------------------------------------------------------------------
(* Specifications *)

\* A packaging run over scenes that differ in their file paths
Init == SceneInit("paths") /\ ParserIdle /\ RenameIdle /\ RelIdle /\ RootIdle /\ RunIdle
        /\ DstIdle /\ ManifestIdle /\ BatchIdle /\ DeleteIdle
Next == LoadNode \/ FinishLoad \/ WriteScene
Spec == Init /\ [][Next]_vars

\* A packaging run over scenes that differ in their frame ranges
InitFrames ==
    SceneInit("frames") /\ ParserIdle /\ RenameIdle /\ RelIdle /\ RootIdle /\ RunIdle
        /\ DstIdle /\ ManifestIdle /\ BatchIdle /\ DeleteIdle
SpecFrames == InitFrames /\ [][Next]_vars

\* The block parser on any lines
InitParser == ParserInit /\ SceneIdle /\ RenameIdle /\ RelIdle /\ RootIdle /\ RunIdle
        /\ DstIdle /\ ManifestIdle /\ BatchIdle /\ DeleteIdle
NextParser == ParseLine \/ ParseEnd
SpecParser == InitParser /\ [][NextParser]_vars

\* get_renamed_dst_path on any patterns
InitRename == RenameInit /\ SceneIdle /\ ParserIdle /\ RelIdle /\ RootIdle /\ RunIdle
        /\ DstIdle /\ ManifestIdle /\ BatchIdle /\ DeleteIdle
NextRename == CallRenamed
SpecRename == InitRename /\ [][NextRename]_vars

\* get_relative_path on any paths
InitRel == RelInit /\ SceneIdle /\ ParserIdle /\ RenameIdle /\ RootIdle /\ RunIdle
        /\ DstIdle /\ ManifestIdle /\ BatchIdle /\ DeleteIdle
NextRel == CallRelativePath
SpecRel == InitRel /\ [][NextRel]_vars

\* clean_root on any Root block
InitRoot == RootInit /\ SceneIdle /\ ParserIdle /\ RenameIdle /\ RelIdle /\ RunIdle
        /\ DstIdle /\ ManifestIdle /\ BatchIdle /\ DeleteIdle
NextRoot == CallCleanRoot
SpecRoot == InitRoot /\ [][NextRoot]_vars

\* Runs of one packager on a package directory
InitRun == RunInit /\ SceneIdle /\ ParserIdle /\ RenameIdle /\ RelIdle /\ RootIdle
        /\ DstIdle /\ ManifestIdle /\ BatchIdle /\ DeleteIdle
NextRun ==
    \/ CallRun \/ Validate \/ Extract \/ Backup \/ WriteMetadata
    \/ WriteManifest \/ Rewrite \/ CopyFiles \/ Finish
SpecRun == InitRun /\ [][NextRun]_vars

\* basic_package_dst_path on any source path
InitDst == DstInit /\ SceneIdle /\ ParserIdle /\ RenameIdle /\ RelIdle /\ RootIdle
        /\ RunIdle /\ ManifestIdle /\ BatchIdle /\ DeleteIdle
NextDst == CallPackagedPath
SpecDst == InitDst /\ [][NextDst]_vars

\* The file copy metadata of one packager over set_scene_file and run
InitManifest == ManifestInit /\ SceneIdle /\ ParserIdle /\ RenameIdle /\ RelIdle
        /\ RootIdle /\ RunIdle /\ DstIdle /\ BatchIdle /\ DeleteIdle
NextManifest == SetSceneFile \/ RunManifest
SpecManifest == InitManifest /\ [][NextManifest]_vars

\* package_scenes on any list of scenes
InitBatch == BatchInit /\ SceneIdle /\ ParserIdle /\ RenameIdle /\ RelIdle
        /\ RootIdle /\ RunIdle /\ DstIdle /\ ManifestIdle /\ DeleteIdle
NextBatch == PackageNext \/ BatchEnd
SpecBatch == InitBatch /\ [][NextBatch]_vars

\* Overwrites of one package root with removals in flight
InitDelete == DeleteInit /\ SceneIdle /\ ParserIdle /\ RenameIdle /\ RelIdle
        /\ RootIdle /\ RunIdle /\ DstIdle /\ ManifestIdle /\ BatchIdle
NextDelete ==
    WritePackage \/ BeginRemove \/ Rename \/ Remove \/ DeleteStep \/ Tick
SpecDelete == InitDelete /\ [][NextDelete]_vars

----------------------------------------------------------------------------
(* Properties of the block parser *)

\* Whether the atoms of piece occur in txt, in a row
Occurs(piece, txt) == \E i \in 1..Len(txt) : LitMatchAt(piece, txt, i)

\* The first line of a text
FirstLine(txt) == IF NextNL(txt, 1) = 0 THEN txt ELSE Take(txt, NextNL(txt, 1))

\* Whether the blocks are whole lines of txt, one after the other from
\* position i on, in this order and without overlap
RECURSIVE InOrder(_, _, _)
InOrder(blocks, txt, i) ==
    \/ blocks = <<>>
    \/ /\ blocks # <<>>
       /\ \E j \in i..Len(txt) :
            /\ j = 1 \/ txt[j - 1] = NL
            /\ LitMatchAt(Head(blocks), txt, j)
            /\ InOrder(Tail(blocks), txt, j + Len(Head(blocks)))

BlockBalanced(b) ==
    /\ Contains(FirstLine(b), "{")
    /\ Count(b, "{") = Count(b, "}")
    /\ \A j \in 1..(Len(b) - 1) :
          b[j] = NL => Count(Take(b, j), "{") > Count(Take(b, j), "}")

\* C1: every block the parser emits starts at a line with a "{", ends at the
\* first line where the unmatched-brace count is back at zero and so holds as
\* many "{" as "}"; the blocks are whole lines of the input in textual order,
\* and, in an input without invalid blocks, every "{" read so far is in an
\* emitted block or in the block being accumulated.
C1_BlocksBalancedInOrder ==
    /\ \A k \in 1..Len(yielded) : BlockBalanced(yielded[k])
    /\ InOrder(yielded, Concat(lines), 1)
    /\ (p_pc # "error" /\ ~Contains(Concat(lines), "add_layer"))
          => Count(Concat(lines), "{")
                = Count(Concat(yielded), "{") + Count(node_txt, "{")

\* A Read block with a nested pair of braces, then a Root block: two nodes
C1_Witness ==
    /\ p_pc = "done"
    /\ Len(yielded) = 2
    /\ Head(yielded[1]) = "Read" /\ Count(yielded[1], "{") = 2
    /\ Head(yielded[2]) = "Root"
    /\ node_txt = <<>>

\* Whether some "}" of the text closes no "{" before it
HasUnmatchedClose(txt) ==
    \E j \in 1..Len(txt) : Count(Take(txt, j), "}") > Count(Take(txt, j), "{")

\* C2: an input with a "}" that closes no "{" never parses to the end: the
\* parser fails on it, inside a block or on a line of its own.
C2_UnmatchedCloseFails == p_pc = "done" => ~HasUnmatchedClose(Concat(lines))

----------------------------------------------------------------------------
(* Properties of the extraction and of the rewritten scene *)

Excluded(node) == node.Class \in {"Write", "DeepWrite"}

NodeSet == {nodes[i] : i \in 1..Len(nodes)}

\* A piece of the parsed scene as it stands in the text write_packaged_scene
\* read
AsRead(piece) == IF scene_txt = SceneText(nodes) THEN piece ELSE CRLF(piece)

\* The nodes whose file is collected under the source path f
Contributors(f) ==
    {n \in NodeSet : ~Excluded(n) /\ HasKnob(n, "file") /\ n.knobs["file"] = f}

\* C3: a Write or DeepWrite node adds nothing to the dependency map, and its
\* file value is not substituted in the rewritten scene: its block is in the
\* packaged scene as it was in the source scene.
C3_ExcludedNodeUntouched ==
    /\ \A f \in DOMAIN dep_data : Contributors(f) # {}
    /\ pc = "written" =>
          \A n \in NodeSet : Excluded(n) => Occurs(AsRead(n.data), scene_out)

FirstFrames(f) ==
    {ParseInt(n.knobs["first"]) : n \in {m \in Contributors(f) : HasKnob(m, "first")}}
LastFrames(f) ==
    {ParseInt(n.knobs["last"]) : n \in {m \in Contributors(f) : HasKnob(m, "last")}}

Min(S) == CHOOSE x \in S : \A y \in S : x <= y
Max(S) == CHOOSE x \in S : \A y \in S : x >= y

\* C4: as long as load_scene_data has not failed, every dependency's start is
\* the least "first" and its end the greatest "last" of the nodes that
\* reference its path and carry the knob, whatever the order of the nodes;
\* it has no start (no end) when none of them carries the knob.
C4_RangeIsMinMax ==
    pc \in {"loading", "loaded", "written"} =>
        \A f \in DOMAIN dep_data :
            /\ dep_data[f].start =
                  IF FirstFrames(f) = {} THEN <<>> ELSE <<Min(FirstFrames(f))>>
            /\ dep_data[f].end =
                  IF LastFrames(f) = {} THEN <<>> ELSE <<Max(LastFrames(f))>>

\* Ranges [2,2] and then [1,3] on one path are merged to [1,3]
C4_Witness ==
    /\ pc = "loaded"
    /\ \E i, j \in 1..Len(nodes) :
        /\ i < j
        /\ nodes[i].Class = "Read" /\ nodes[j].Class = "Read"
        /\ HasKnob(nodes[i], "first") /\ HasKnob(nodes[i], "last")
        /\ HasKnob(nodes[j], "first") /\ HasKnob(nodes[j], "last")
        /\ nodes[i].knobs["file"] = P1 /\ nodes[j].knobs["file"] = P1
        /\ nodes[i].knobs["first"] = <<"2">> /\ nodes[i].knobs["last"] = <<"2">>
        /\ nodes[j].knobs["first"] = <<"1">> /\ nodes[j].knobs["last"] = <<"3">>
    /\ dep_data[P1].start = <<1>>
    /\ dep_data[P1].end = <<3>>

\* C5: the destination resolved for a source path at a later encounter is the
\* one resolved and stored at its first encounter.
C5_SameDestinationResolved ==
    (pc = "loading" /\ err = "" /\ file # <<>>) =>
        dep_data[file[1]].packaged_path = dst

\* The destination a dependency is rewritten to
ChosenDst(f) ==
    IF relative_paths THEN dep_data[f].relative_path ELSE dep_data[f].packaged_path

\* C9: when one dependency's source path is the start of another's, the
\* rewritten scene holds no text made of the shorter one's destination
\* followed by the rest of the longer path.
C9_LongerPathNotCorrupted ==
    pc = "written" =>
        \A f, g \in DOMAIN dep_data :
            (f # g /\ StartsWith(g, f))
                => ~Occurs(ChosenDst(f) \o Drop(g, Len(f)), scene_out)

\* C10: the source path is matched as a literal: the block of a node in which
\* no dependency's source path occurs character for character is in the
\* packaged scene as it was in the source scene.
C10_OnlyLiteralOccurrencesReplaced ==
    pc = "written" =>
        \A n \in NodeSet :
            (n.Class # "Root" /\ \A f \in DOMAIN dep_data : ~Occurs(f, n.data))
                => Occurs(AsRead(n.data), scene_out)

----------------------------------------------------------------------------
(* Properties of the extraction result and of the rewritten scene *)

NoRootNode == \A i \in 1..Len(nodes) : nodes[i].Class # "Root"

NodeFrames(knob) ==
    {ParseInt(n.knobs[knob]) :
        n \in {m \in NodeSet : /\ m.Class # "Root"
                                /\ HasKnob(m, knob)
                                /\ IsIntStr(m.knobs[knob])}}

\* C17: the scene start and end in effect after extraction, which are passed
\* to the root rewriter, are the Root's first_frame and last_frame when the
\* Root has both, and otherwise the least "first" and the greatest "last" of
\* the nodes.
C17_RootRangePrecedence ==
    pc \in {"loaded", "written"} =>
        IF HasKnob(root[1], "first_frame") /\ HasKnob(root[1], "last_frame")
        THEN /\ start = IntV(ParseInt(root[1].knobs["first_frame"]))
             /\ end = IntV(ParseInt(root[1].knobs["last_frame"]))
        ELSE /\ start = IF NodeFrames("first") = {} THEN None
                        ELSE IntV(Min(NodeFrames("first")))
             /\ end = IF NodeFrames("last") = {} THEN None
                      ELSE IntV(Max(NodeFrames("last")))

\* The patched Root text of the run
NewRoot == clean_root(root[1], ProjectDir, start, end)

EndsWith(txt, s) ==
    Len(s) <= Len(txt) /\ Drop(txt, Len(txt) - Len(s)) = s

\* C19: when the text of the parsed Root block is in the scene text that is
\* rewritten, the patched Root text takes its place; when it is not, the
\* patched Root text is appended at the end of the scene text.
C19_RootFallbackAppended ==
    pc = "written" =>
        IF Occurs(root[1].data, scene_txt)
        THEN Occurs(NewRoot, scene_out)
        ELSE EndsWith(scene_out, NewRoot)

\* The lines of a text, each with its line break
RECURSIVE Lines(_)
Lines(txt) ==
    IF txt = <<>> THEN <<>>
    ELSE LET e == NextNL(txt, 1)
         IN  IF e = 0 THEN <<txt>>
             ELSE <<Take(txt, e)>> \o Lines(Drop(txt, e))

\* The lines of a scene text that lie outside its Root blocks
RECURSIVE OutsideRoot(_, _)
OutsideRoot(ls, in_root) ==
    IF ls = <<>> THEN <<>>
    ELSE LET l == Head(ls)
         IN  IF in_root
             THEN OutsideRoot(Tail(ls), ~(Head(l) = "}"))
             ELSE IF Head(l) = "Root"
             THEN OutsideRoot(Tail(ls), TRUE)
             ELSE <<l>> \o OutsideRoot(Tail(ls), FALSE)

HasAllRootFields(node) ==
    /\ HasKnob(node, "project_directory")
    /\ knob_value(node, "project_directory") # <<>>
    /\ HasKnob(node, "first_frame")
    /\ HasKnob(node, "last_frame")

\* C20: the rewritten scene is the scene text that was read, line for line,
\* outside the Root block and outside the lines in which a dependency's source
\* path occurs; a scene without dependencies whose Root has project_directory,
\* first_frame and last_frame is written back unchanged.
C20_RewriteFrame ==
    pc = "written" =>
        LET src == OutsideRoot(Lines(scene_txt), FALSE)
            out == OutsideRoot(Lines(scene_out), FALSE)
        IN  /\ Len(out) = Len(src)
            /\ \A j \in 1..Len(src) :
                  (\A f \in DOMAIN dep_data : ~Occurs(f, src[j])) => out[j] = src[j]
            /\ (dep_data = <<>> /\ HasAllRootFields(root[1]))
                  => scene_out = scene_txt

----------------------------------------------------------------------------
(* Properties of get_renamed_dst_path *)

Matches(data, src) == Search(data.regex, src) # 0

\* Two patterns of the list match the path and give different candidates
Ambiguous(src, patterns) ==
    \E i, j \in 1..Len(patterns) :
        /\ i < j
        /\ Matches(patterns[i], src) /\ Matches(patterns[j], src)
        /\ Renamed(patterns[i], src) # Renamed(patterns[j], src)

\* C6: when more than one pattern matches with different candidates,
\* get_renamed_dst_path fails and returns no destination, never the first
\* match's candidate.
C6_AmbiguousRenameFails ==
    (rn_pc = "done" /\ Ambiguous(rn_src, rn_patterns))
        => (rn_out.err = "ValueError" /\ rn_out.renamed = NoPath)

\* Exactly two patterns, both matching, with different candidates
C6_Witness ==
    /\ rn_pc = "done"
    /\ Len(rn_patterns) = 2
    /\ Ambiguous(rn_src, rn_patterns)
    /\ rn_out.err = "ValueError"

----------------------------------------------------------------------------
(* Properties of get_relative_path *)

\* What is left of a path under the root: the leading root and the
\* separators after it removed
BelowRoot(path, rt) == LStrip(Drop(path, Len(rt)), "/")

\* "./<stub>" for a scene right under the root, else one "../" for each
\* further level of the scene
ExpectedRelative(k, stub) ==
    IF k = 1 THEN <<".", "/">> \o stub ELSE DirsUp(k - 1) \o <<"/">> \o stub

\* C7: for a scene and a dependency file under the package root, the result
\* is "./<stub>" or (k-1) "../" and <stub>, k the number of path segments of
\* the scene below the root and <stub> the dependency path without the
\* leading root.
C7_RelativePathShape ==
    (/\ rp_pc = "done"
     /\ StartsWith(rp_in.scene, rp_in.root)
     /\ StartsWith(rp_in.dep, rp_in.root)
     /\ BelowRoot(rp_in.dep, rp_in.root) # <<>>
     /\ rp_in.dep[Len(rp_in.dep)] # "/"
     /\ NumSegments(Drop(rp_in.scene, Len(rp_in.root))) >= 1)
        => /\ rp_out.err = ""
           /\ rp_out.path =
                ExpectedRelative(NumSegments(Drop(rp_in.scene, Len(rp_in.root))),
                                 BelowRoot(rp_in.dep, rp_in.root))

----------------------------------------------------------------------------
(* Properties of clean_root *)

\* The knob named on a knob line
FieldOf(line) == IF Len(line) >= 2 THEN line[2] ELSE ""

\* The fields clean_root has to add to the Root block of the input
MissingFields(kls) ==
    LET names == {kls[i][1] : i \in 1..Len(kls)}
        empty_pdir == \E i \in 1..Len(kls) : kls[i] = <<"project_directory", "\"\"">>
    IN  ({"first_frame", "last_frame"} \ names)
        \cup (IF "project_directory" \notin names \/ empty_pdir
              THEN {"project_directory"} ELSE {})

\* The knob lines of the input that stay: all but an empty project_directory
KeptLines(kls) ==
    LET IsKept(kv) == kv # <<"project_directory", "\"\"">>
        kept == SelectSeq(kls, IsKept)
    IN  [i \in 1..Len(kept) |-> KnobLine(kept[i])]

\* C18: the text clean_root returns is the opening line of the Root block,
\* then one inserted line for each of project_directory, first_frame and
\* last_frame that the block lacks (project_directory also when its value is
\* empty, and then with the project directory text as the line), then every
\* other line of the block unchanged and in its order; the result has all
\* three fields.
C18_RootOnlyPatched ==
    cr_pc = "done" =>
        LET out  == Lines(cr_out)
            rest == KeptLines(cr_in.lines) \o << <<"}", NL>> >>
            n    == Len(out) - Len(rest) - 1
            ins  == [i \in 1..n |-> out[i + 1]]
        IN  /\ n >= 0
            /\ out[1] = RootOpen
            /\ [i \in 1..Len(rest) |-> out[n + 1 + i]] = rest
            /\ n = Cardinality(MissingFields(cr_in.lines))
            /\ {FieldOf(ins[i]) : i \in 1..n} = MissingFields(cr_in.lines)
            /\ \A i \in 1..n : FieldOf(ins[i]) = "project_directory" => ins[i] = ProjectDir
            /\ \A f \in {"project_directory", "first_frame", "last_frame"} :
                  \E i \in 1..Len(out) : FieldOf(out[i]) = f

----------------------------------------------------------------------------
(* Properties of Packager.run *)

RunOrder ==
    <<"validate", "extract", "backup", "metadata", "manifest", "rewrite", "copy">>

\* The steps a run that completes has made in mode m
StepsOf(m) == Take(RunOrder, IF m = 0 THEN 7 ELSE IF m = 1 THEN 6 ELSE 5)

\* C11: a run makes its steps only in the order validate, extract, back up,
\* metadata, manifest, rewrite, copy: a step is made only right after its
\* predecessor, no step is made after a step has failed or after the run is
\* done, and a run is done only after all the steps of its mode.
C11_StepsInOrder ==
    [][ /\ steps' # steps =>
             \/ steps' = <<>> /\ r_pc' = "running"
             \/ /\ r_pc \notin {"failed", "done", "ready"}
                /\ Len(steps) < Len(RunOrder)
                /\ steps' = Append(steps, RunOrder[Len(steps) + 1])
        /\ r_pc' = "done" => steps' = StepsOf(mode')
        /\ (r_pc = "failed" /\ r_pc' # "failed") => r_pc' = "running"
      ]_vars

\* A full run has made all seven steps
C11_Witness ==
    r_pc = "done" /\ mode = 0 /\ steps = RunOrder /\ Len(fs_log) >= 5

Ops(log) == {log[i] : i \in 1..Len(log)}

NonEmpty(d) == d.exists /\ d.entries # {}

\* C12: files are copied in mode 0 only, and a run in mode 0 that is done has
\* copied them; a run in mode 1 that is done has written the backup, the
\* metadata, the manifest and the rewritten scene; a run in mode 2 changes
\* nothing in the file system, also with overwrite on a non-empty root.
C12_ModeGates ==
    /\ "copy_files" \in Ops(fs_log) => mode = 0
    /\ (r_pc = "done" /\ mode = 0) => "copy_files" \in Ops(fs_log)
    /\ (r_pc = "done" /\ mode = 1) =>
          {"copy_backup", "write_metadata", "write_manifest", "write_scene"}
              \subseteq Ops(fs_log)
    /\ (mode = 2 /\ r_pc # "ready") => (fs_log = <<>> /\ fs = fs0)

\* A dry run with overwrite on an existing package ends with the package as
\* it was
C12_Witness ==
    /\ r_pc = "done" /\ mode = 2 /\ overwrite
    /\ NonEmpty(fs0) /\ fs = fs0 /\ "meta" \in fs.entries

C14_OnlyGenuinePackageRemoved ==
    /\ "rename" \in Ops(fs_log) =>
          /\ Cardinality(find_existing_packages(fs0)) = 1
          /\ fs0.recorded = "target"
    /\ ( /\ r_pc \notin {"ready", "running"}
         /\ overwrite /\ mode < 2 /\ NonEmpty(fs0)
         /\ ~( /\ Cardinality(find_existing_packages(fs0)) = 1
               /\ fs0.recorded = "target") )
          => (r_pc = "failed" /\ fs = fs0 /\ fs_log = <<>>)

\* A genuine package was removed
C14_Witness ==
    /\ r_pc = "validated"
    /\ fs_log = <<"rename", "rmtree">>
    /\ fs0.entries = {"meta", "other"}
    /\ fs = Absent

\* C15: a run that fails in validation or in extraction leaves the file system
\* as it was when run was called.
C15_AbortWithoutMutation ==
    (r_pc = "failed" /\ Len(steps) <= 2) => fs = fs0

----------------------------------------------------------------------------
(* Properties of the scene-wide range and of the frame knobs *)

\* The integer "first" ("last") values of all the contributing nodes
AllFirstFrames == UNION {FirstFrames(f) : f \in DOMAIN dep_data}
AllLastFrames == UNION {LastFrames(f) : f \in DOMAIN dep_data}

\* C21: the scene start load_scene_data returns is the least integer "first"
\* and the scene end the greatest integer "last" over all contributing nodes,
\* those on an already recorded path included; each is an integer or absent,
\* never a knob string.
C21_SceneRangeIsMinMax ==
    pc \in {"loaded", "written"} =>
        /\ start = IF AllFirstFrames = {} THEN None ELSE IntV(Min(AllFirstFrames))
        /\ end = IF AllLastFrames = {} THEN None ELSE IntV(Max(AllLastFrames))

\* The last node processed is a contributing node with a "first" or "last"
\* knob that int() cannot parse
LastNodeHasBadFrame ==
    /\ nodes # <<>>
    /\ LET n == nodes[Len(nodes)]
       IN  /\ ~Excluded(n)
           /\ HasKnob(n, "file")
           /\ \/ HasKnob(n, "first") /\ ~IsIntStr(n.knobs["first"])
              \/ HasKnob(n, "last") /\ ~IsIntStr(n.knobs["last"])

\* C26: a "first" or "last" knob that is not integer-parsable is ignored: the
\* node does not make load_scene_data raise, and the ranges recorded for the
\* dependency are those of the nodes processed before it.
C26_NonIntegerFrameIgnored ==
    LastNodeHasBadFrame => (err # "ValueError" /\ pc # "failed")

----------------------------------------------------------------------------
(* Further properties of the block parser and of the rewritten scene *)

\* C25: an input that ends while a block is being accumulated, with "{" still
\* unmatched, does not parse to the end: the parser fails on it and the
\* partial block is not dropped.
C25_UnclosedBlockFails ==
    p_pc = "done" => ~(node_txt # <<>> /\ unmatched > 0)

\* The scene text with the Root block and every dependency source path
\* replaced in one pass from left to right: at each position the Root block
\* gives way to the patched Root, the longest source path that stands there
\* to its destination, and a replacement is not looked at again
RECURSIVE SimultaneousSub(_, _)
SimultaneousSub(txt, i) ==
    IF i > Len(txt) THEN <<>>
    ELSE LET r == AsRead(root[1].data)
             hits == {f \in DOMAIN dep_data : LitMatchAt(f, txt, i)}
         IN  IF NewRoot # <<>> /\ Occurs(root[1].data, txt) /\ LitMatchAt(r, txt, i)
             THEN NewRoot \o SimultaneousSub(txt, i + Len(r))
             ELSE IF hits = {} THEN <<txt[i]>> \o SimultaneousSub(txt, i + 1)
             ELSE LET f == CHOOSE g \in hits : \A h \in hits : Len(h) <= Len(g)
                  IN  ChosenDst(f) \o SimultaneousSub(txt, i + Len(f))

\* C29: the rewritten scene is the scene text with all the dependency source
\* paths replaced at once: no destination that was put in for one dependency
\* is changed by the substitution of another, in any order of the
\* dependency map.
C29_NoCascadingSubstitution ==
    pc = "written" => scene_out = SimultaneousSub(scene_txt, 1)

----------------------------------------------------------------------------
(* Properties of the frame values of the packaged Root *)

\* The packager was constructed on the scene: get_scene_frange gave a range
Constructed == SettingsRange(nodes).err = ""

\* C30: when the scene is written, the scene start and end the root rewriter
\* is given are integers and are the start and end of the package settings
\* that go into the package metadata, so that a first_frame or last_frame
\* line it inserts carries these values.
C30_InsertedFramesAreSettings ==
    (pc = "written" /\ Constructed) =>
        /\ start.t = "int" /\ start = SettingsRange(nodes).start
        /\ end.t = "int" /\ end = SettingsRange(nodes).end

----------------------------------------------------------------------------
(* Properties of basic_package_dst_path *)

\* The source path has a version directory, "/v<digits>/"
HasVersionDir(path) == VersionDirAt(path) # 0

\* The base name of the file without its extension and without a frame pad
\* that follows a "_" or a "."
PadlessBase(name) == StripFramePad(SplitextBase(name))

\* C22: the fallback destination of a source path with a version directory is
\* the parent directory joined with the path from the first version directory
\* on; of any other source path it is the parent directory, a directory named
\* after the base name without its frame pad, and the file name; the file name
\* is the last component in both cases.
C22_FallbackDestination ==
    bd_pc = "done" =>
        LET src == clean_path(bd_in.src)
            dir == clean_path(bd_in.dir)
            name == Basename(src)
        IN  /\ bd_out =
                  IF HasVersionDir(src)
                  THEN PathJoin(dir, Drop(src, VersionDirAt(src)))
                  ELSE PathJoin(PathJoin(dir, PadlessBase(name)), name)
            /\ Basename(bd_out) = name

\* The frames of a dependency in the manifest: start..end when the frame
\* limit is set and both bounds exist, none otherwise
ManifestFrames(d) ==
    IF m_limit /\ d.start # <<>> /\ d.end # <<>>
    THEN [k \in 1..(d.end[1] - d.start[1] + 1) |-> d.start[1] + k - 1]
    ELSE <<>>

DepGlobs == {get_frame_glob_path(m_deps[i].src) : i \in 1..Len(m_deps)}

\* C23: in the manifest of a first run every dependency of the dependency map
\* has its source glob mapped to its own destination glob and its own frames;
\* an extra file under the source glob of a dependency does not replace that
\* entry, and every other extra file is there with no frames.
C23_ManifestContent ==
    (m_pc = "ran" /\ m_runs = 1) =>
        /\ \A i \in 1..Len(m_deps) :
              LET d == m_deps[i]
                  key == get_frame_glob_path(d.src)
              IN  /\ key \in DOMAIN filecopy_metadata
                  /\ filecopy_metadata[key] =
                         [dst |-> get_frame_glob_path(d.packaged_path),
                          frames |-> ManifestFrames(d)]
        /\ \A j \in 1..Len(m_extra) :
              LET e == m_extra[j]
              IN  e.src \notin DepGlobs =>
                      /\ e.src \in DOMAIN filecopy_metadata
                      /\ filecopy_metadata[e.src] =
                             [dst |-> get_frame_glob_path(e.dst), frames |-> <<>>]

\* C27: after any set_scene_file and run calls on one packager, the manifest a
\* run writes and the manifest it hands to the file copy are the same value,
\* the one computed from the dependency map that run extracted.
C27_ManifestFresh ==
    m_pc = "ran" =>
        /\ (m_written # <<>> /\ m_copied # <<>>) => m_written = m_copied
        /\ \A k \in 1..Len(m_written) :
              m_written[k] = LoadFresh(m_deps, m_extra, m_limit)
        /\ \A k \in 1..Len(m_copied) :
              m_copied[k] = LoadFresh(m_deps, m_extra, m_limit)

\* The scenes of the batch that do not exist, and those that exist
MissingScenes == SelectSeq(b_scenes, LAMBDA s : ~IsFile(s))
ExistingScenes == SelectSeq(b_scenes, IsFile)

\* The places of the existing scenes whose packaging fails
OtherFailures ==
    {i \in 1..Len(b_scenes) :
        IsFile(b_scenes[i]) /\ package_scene(b_scenes[i]) # NoException}

\* C24: when package_scenes ends on a list in which no existing scene fails,
\* every existing scene has been packaged, and a single ValueError listing
\* the missing scenes in sorted order is raised if there is a missing scene;
\* when an existing scene fails, its error is raised at once, the existing
\* scenes before it having been packaged.
C24_MissingScenesCollected ==
    b_pc \in {"raised", "returned"} =>
        IF OtherFailures = {}
        THEN /\ ids = ExistingScenes
             /\ IF MissingScenes # <<>>
                THEN b_pc = "raised" /\ b_err = MissingScenesError(MissingScenes)
                ELSE b_pc = "returned"
        ELSE LET i == CHOOSE k \in OtherFailures : \A j \in OtherFailures : k <= j
             IN  /\ b_pc = "raised"
                 /\ b_err = package_scene(b_scenes[i])
                 /\ ids = SelectSeq(Take(b_scenes, i - 1), IsFile)

\* A removal, in process or detached, removes files only from a temporary
\* path, and only files of the package it was started for
DeletesOnlyRenamed ==
    \A r \in d_deleted : r.path # PackageRootDir /\ r.file.gen = r.gen

\* When remove_existing_package returns, nothing is at the package root
RootFreeOnReturn ==
    (d_pc = "renamed" /\ d_pc' = "ready" /\ d_err' = "") =>
        (~dirs'[PackageRootDir].exists \/ dirs'[PackageRootDir].entries = {})

\* C28: on overwrite the package root is renamed to a temporary path and only
\* that path is removed, in process or by the detached removal: in every
\* interleaving of a removal in flight with later runs on the same package
\* root no file written under the package root by a later run is removed,
\* and the package root is absent or empty when remove_existing_package
\* returns.
C28_DetachedDeleteIsolated == []DeletesOnlyRenamed /\ [][RootFreeOnReturn]_vars

\* A detached removal in flight has removed a file of the old package at its
\* temporary path while the package root holds the package of a later run
C28_Witness ==
    \E j \in jobs :
        /\ \E r \in d_deleted : r.path = j.target /\ r.gen = j.gen
        /\ dirs[j.target].exists
        /\ dirs[PackageRootDir].exists
        /\ \E f \in dirs[PackageRootDir].entries : f.gen > j.gen

====
